---------------------------- MODULE Spec2Model ----------------------------
(***************************************************************************)
(* The websocket publish/subscribe hub of fnodata (package pubsub):        *)
(* WebsocketHub.Run and its helpers, the per-client subscription registry  *)
(* and transaction buffer, the flush ticker, the ping prober, Stop, and    *)
(* the per-connection receive and send loops of PubSubHub.                  *)
(***************************************************************************)
EXTENDS Integers, Sequences, FiniteSets, TLC

(***************************************************************************)
(* Bounds of the model.                                                    *)
(***************************************************************************)
\* Number of websocket connections that may be accepted.
MaxClients == 2
\* Number of inbound events the hub loop takes from HubRelay.
MaxEvents == 3
\* Capacity of a client's delivery channel.  The code makes it 16
\* (make(hubSpoke, 16)); the model scales it down so that a full channel
\* is reached within MaxEvents events.
SpokeCap == 2
\* Number of events in the specifications with Stop.
MaxStopEvents == 2
\* Number of transactions in the specification of the transaction buffer:
\* NewTxBufferSize fill a buffer, and each one after that sends a reset.
MaxTxEvents == 10
\* Number of transactions in the specification of the flush decision with
\* two connections.
MaxFlushEvents == 6
\* Number of events in the specification of the requests.
MaxReqEvents == 1
\* Number of calls on a client the history keeps.
\* SpecLive: events a run of the hub receives while connections end.
MaxLiveEvents == 2
\* SpecQuit: events the hub receives before and while Stop runs.
MaxQuitEvents == 1
\* SpecInject: events the hub receives from the ping goroutine and Store.
MaxInjectEvents == 2
\* SpecRelay: events the hub broadcasts or buffers, among those it receives.
MaxRelayEvents == 2
\* SpecTick: transactions the hub receives.
MaxTickEvents == 5
MaxCalls == 2
\* Number of transactions in the specification of one subscribed client
\* without ticks of the flush ticker.
MaxCoalesceEvents == 10
\* Number of transactions appended to one buffer in the specification of
\* the buffer alone.
MaxBufEvents == 8

(***************************************************************************)
(* Program constants.                                                      *)
(***************************************************************************)
NewTxBufferSize == 5
clientSignalSize == 5

tickerSigReset == "reset"
tickerSigStop == "stop"

\* pstypes.HubSignal values used by the hub.
sigSubscribe == "subscribe"
sigUnsubscribe == "unsubscribe"
sigNewBlock == "newblock"
sigMempoolUpdate == "mempool"
sigPingAndUserCount == "ping"
sigNewTx == "newtx"
sigNewTxs == "newtxs"
sigAddressTx == "address"
sigSyncStatus == "syncstatus"
sigUnknown == "unknown"

Clients == 1..MaxClients
Addresses == {"Addr1", "Addr2"}

(***************************************************************************)
(* Payloads of a HubMessage (the dynamic type of HubMessage.Msg).          *)
(*   nil      the nil interface                                            *)
(*   addrptr  a non-nil *pstypes.AddressMessage                            *)
(*   nilptr   a nil *pstypes.AddressMessage                                *)
(*   addrval  pstypes.AddressMessage (not a pointer)                       *)
(*   tx       a non-nil *exptypes.MempoolTx                                *)
(*   txs      a slice of *exptypes.MempoolTx                               *)
(***************************************************************************)
NilMsg == [t |-> "nil", a |-> "", id |-> 0]
AddrPtr(a) == [t |-> "addrptr", a |-> a, id |-> 0]
NilAddrPtr == [t |-> "nilptr", a |-> "", id |-> 0]
AddrVal(a) == [t |-> "addrval", a |-> a, id |-> 0]
TxPtr(i) == [t |-> "tx", a |-> "", id |-> i]
TxSlice == [t |-> "txs", a |-> "", id |-> 0]

HubMessage(sig, msg) == [Signal |-> sig, Msg |-> msg]

\* HubMessage.IsValid of package pubsub/types: the payload's type matches
\* the kind.
IsValid(m) ==
    CASE m.Signal = sigAddressTx -> m.Msg.t \in {"addrptr", "nilptr"}
      [] m.Signal = sigNewTx -> m.Msg.t = "tx"
      [] m.Signal = sigNewTxs -> m.Msg.t = "txs"
      [] m.Signal \in {sigSubscribe, sigUnsubscribe, sigNewBlock,
                       sigMempoolUpdate, sigPingAndUserCount,
                       sigSyncStatus} -> TRUE
      [] OTHER -> FALSE

(***************************************************************************)
(* type client: the subscribed kinds, the subscribed addresses and the     *)
(* buffer of pending transactions.                                         *)
(***************************************************************************)
newClient == [subs |-> {}, addrs |-> {}, newTxs |-> <<>>]

\* client.isSubscribed.  A nil *AddressMessage is dereferenced there: that
\* case is isSubscribedPanics, and no caller of the model evaluates
\* isSubscribed on it.
isSubscribedPanics(c, msg) ==
    msg.Signal \in c.subs /\ msg.Signal = sigAddressTx /\ msg.Msg.t = "nilptr"
isSubscribed_NoAddrFilter(c, msg) == msg.Signal \in c.subs
isSubscribed_NoKindCheck(c, msg) ==
    IF msg.Signal = sigAddressTx
    THEN msg.Msg.t = "addrptr" /\ msg.Msg.a \in c.addrs
    ELSE TRUE
isSubscribed(c, msg) ==
    IF msg.Signal \notin c.subs THEN FALSE
    ELSE IF msg.Signal = sigAddressTx
         THEN IF msg.Msg.t # "addrptr" THEN FALSE
              ELSE msg.Msg.a \in c.addrs
         ELSE TRUE

\* client.subscribe: the result is the error ("" for nil, "panic" for the
\* nil pointer dereference of am.Address) and the client afterwards.
subscribe_KindBeforeCheck(c, msg) ==
    IF msg.Signal = sigAddressTx
    THEN IF msg.Msg.t = "addrptr"
         THEN [err |-> "", c |-> [c EXCEPT !.addrs = @ \cup {msg.Msg.a},
                                           !.subs = @ \cup {msg.Signal}]]
         ELSE [err |-> "msg.Msg not a string (SigAddressTx)",
               c |-> [c EXCEPT !.subs = @ \cup {msg.Signal}]]
    ELSE [err |-> "", c |-> [c EXCEPT !.subs = @ \cup {msg.Signal}]]
subscribe_Toggle(c, msg) ==
    IF msg.Signal = sigAddressTx /\ msg.Msg.t # "addrptr"
    THEN [err |-> "msg.Msg not a string (SigAddressTx)", c |-> c]
    ELSE IF msg.Signal \in c.subs
         THEN [err |-> "", c |-> [c EXCEPT !.subs = @ \ {msg.Signal}]]
         ELSE [err |-> "", c |-> [c EXCEPT !.subs = @ \cup {msg.Signal},
                                           !.addrs = IF msg.Signal = sigAddressTx
                                                     THEN @ \cup {msg.Msg.a} ELSE @]]
subscribe(c, msg) ==
    IF msg.Signal = sigAddressTx
    THEN IF msg.Msg.t = "nilptr" THEN [err |-> "panic", c |-> c]
         ELSE IF msg.Msg.t # "addrptr"
              THEN [err |-> "msg.Msg not a string (SigAddressTx)", c |-> c]
              ELSE [err |-> "", c |-> [c EXCEPT !.addrs = @ \cup {msg.Msg.a},
                                                !.subs = @ \cup {msg.Signal}]]
    ELSE [err |-> "", c |-> [c EXCEPT !.subs = @ \cup {msg.Signal}]]

\* client.unsubscribe
unsubscribe(c, msg) ==
    IF msg.Signal = sigAddressTx
    THEN IF msg.Msg.t = "nilptr" THEN [err |-> "panic", c |-> c]
         ELSE IF msg.Msg.t # "addrptr"
              THEN [err |-> "msg.Msg not an AddressMessage (SigAddressTx)", c |-> c]
              ELSE [err |-> "", c |-> [c EXCEPT !.addrs = @ \ {msg.Msg.a},
                                                !.subs = @ \ {msg.Signal}]]
    ELSE [err |-> "", c |-> [c EXCEPT !.subs = @ \ {msg.Signal}]]

\* client.unsubscribeAll
unsubscribeAll_KeepAddrs(c) == [c EXCEPT !.subs = {}]
unsubscribeAll(c) == [c EXCEPT !.subs = {}, !.addrs = {}]


(***************************************************************************)
(* The state.                                                              *)
(***************************************************************************)
VARIABLES
    clients,          \* WebsocketHub.clients: the registered spokes
    numClients,       \* WebsocketHub.numClients
    timeToSendTxBuffer, \* WebsocketHub.timeToSendTxBuffer
    bufferTickerChan, \* WebsocketHub.bufferTickerChan, capacity clientSignalSize
    bufferTickerChanClosed,
    quitClosed,       \* quitWSHandler has been closed
    relayClosed,      \* HubRelay has been closed
    stopPingClosed,   \* the ping prober's stop channel has been closed
    hubpc,            \* where Run is
    hubMsg,           \* the message Run is handling
    todo,             \* spokes the broadcast's range has yet to produce
    tickpc,           \* periodicTxBufferSend
    pingpc,           \* the goroutine of pingClients
    stoppc,           \* the caller of Stop
    prodpc, prodMsg,  \* a notification goroutine started by Store
    connpc,           \* per connection: the handler of WebSocketHandler
    recvpc,           \* per connection: receiveLoop
    sendpc,           \* per connection: sendLoop
    cl,               \* per connection: the client (clientHubSpoke.cl)
    spoke,            \* per connection: the messages in the hubSpoke channel
    closes,           \* per connection: how many times the spoke was closed
    panicked,         \* the run-time panic that ended the process, or ""
    evLimit,          \* bound: how many events Run may broadcast or buffer
    nev,              \* history: the number of events Run has received
    lastTaken,        \* history: number of the last event sendLoop took
    closedBy,         \* history: what closed the spoke
    roundLog,         \* history: what the last broadcast did to each client
    calls,            \* history: the last calls on a client (SpecSub)
    lastBatch,        \* history: per connection, the last batch sendLoop encoded
    reqLog            \* history: the last receive of a receiveLoop

hubVars == <<clients, numClients, timeToSendTxBuffer, bufferTickerChan,
             bufferTickerChanClosed, quitClosed, relayClosed, stopPingClosed,
             hubpc, hubMsg, todo>>
procVars == <<tickpc, pingpc, stoppc, prodpc, prodMsg>>
connVars == <<connpc, recvpc, sendpc, cl, spoke, closes>>
histVars == <<panicked, evLimit, nev, lastTaken, closedBy, roundLog, calls,
                   lastBatch, reqLog>>
vars == <<hubVars, procVars, connVars, histVars>>

NoMsg == [Signal |-> "", Msg |-> NilMsg, n |-> 0]
NoLog == [c \in Clients |-> "-"]
NoReq == [conn |-> 0, EventId |-> "", Message |-> "", big |-> FALSE,
          text |-> "", respId |-> "", sent |-> "none"]

\* NewWebsocketHub, and Run started by NewPubSubHub: the loop waits in its
\* select, the ticker and the ping goroutines run, nothing is connected.
Start(limit) ==
    /\ clients = {}
    /\ numClients = 0
    /\ timeToSendTxBuffer = FALSE
    /\ bufferTickerChan = <<>>
    /\ bufferTickerChanClosed = FALSE
    /\ quitClosed = FALSE
    /\ relayClosed = FALSE
    /\ stopPingClosed = FALSE
    /\ hubpc = "select"
    /\ hubMsg = NoMsg
    /\ todo = {}
    /\ tickpc = "run"
    /\ pingpc = "wait"
    /\ stoppc = "idle"
    /\ prodpc = "idle"
    /\ prodMsg = NoMsg
    /\ connpc = [c \in Clients |-> "none"]
    /\ recvpc = [c \in Clients |-> "idle"]
    /\ sendpc = [c \in Clients |-> "idle"]
    /\ cl = [c \in Clients |-> newClient]
    /\ spoke = [c \in Clients |-> <<>>]
    /\ closes = [c \in Clients |-> 0]
    /\ panicked = ""
    /\ evLimit = limit
    /\ nev = 0
    /\ lastTaken = [c \in Clients |-> 0]
    /\ closedBy = [c \in Clients |-> ""]
    /\ roundLog = NoLog
    /\ calls = <<>>
    /\ lastBatch = [c \in Clients |-> <<>>]
    /\ reqLog = NoReq

Init == Start(MaxEvents)

spokeClosed(c) == closes[c] > 0
\* closeWS(ws) is deferred by sendLoop and is the last deferred call of
\* receiveLoop: the websocket.Conn is closed once either has run it.
wsClosed_RecvOnly(c) == recvpc[c] = "done"
wsClosed(c) == sendpc[c] = "done" \/ recvpc[c] = "done"
Alive == panicked = ""


(***************************************************************************)
(* The hub: registerClient, unregisterClient, unregisterAllClients.        *)
(***************************************************************************)
closeSpokes(S, by) ==
    /\ closes' = [c \in Clients |-> IF c \in S THEN closes[c] + 1 ELSE closes[c]]
    /\ closedBy' = [c \in Clients |-> IF c \in S THEN by ELSE closedBy[c]]
    /\ panicked' = IF \E c \in S : spokeClosed(c)
                   THEN "close of closed channel" ELSE panicked

registerClient(c) ==
    /\ clients' = clients \cup {c}
    /\ numClients' = Cardinality(clients')

unregisterClient_NoClose(c, by) ==
    IF c \notin clients
    THEN UNCHANGED <<clients, numClients, closes, closedBy, panicked>>
    ELSE /\ clients' = clients \ {c}
         /\ numClients' = Cardinality(clients')
         /\ UNCHANGED <<closes, closedBy, panicked>>
unregisterClient_NoCheck(c, by) ==
    /\ clients' = clients \ {c}
    /\ numClients' = Cardinality(clients')
    /\ closeSpokes({c}, by)
unregisterClient_KeepKey(c, by) ==
    IF c \notin clients
    THEN UNCHANGED <<clients, numClients, closes, closedBy, panicked>>
    ELSE /\ UNCHANGED <<clients, numClients>>
         /\ closeSpokes({c}, by)
unregisterClient(c, by) ==
    IF c \notin clients
    THEN UNCHANGED <<clients, numClients, closes, closedBy, panicked>>
    ELSE /\ clients' = clients \ {c}
         /\ numClients' = Cardinality(clients')
         /\ closeSpokes({c}, by)

unregisterAllClients ==
    /\ clients' = {}
    /\ UNCHANGED numClients
    /\ closeSpokes(clients, "all")

\* Run returns from its loop: the deferred unregisterAllClients runs, and
\* then the deferred drain of HubRelay.
HubReturn_NoUnregisterAll ==
    /\ UNCHANGED <<clients, closes, closedBy, panicked>>
    /\ hubpc' = "drain"
    /\ hubMsg' = NoMsg
    /\ todo' = {}
HubReturn ==
    /\ unregisterAllClients
    /\ hubpc' = "drain"
    /\ hubMsg' = NoMsg
    /\ todo' = {}

\* The range over wsh.clients starts for message m, event number n.
StartBroadcast(m, n) ==
    /\ hubpc' = "bcast"
    /\ hubMsg' = [Signal |-> m.Signal, Msg |-> m.Msg, n |-> n]
    /\ todo' = clients

HubStay == UNCHANGED <<hubpc, hubMsg, todo>>

\* txList.addTxToBuffer
addTxToBuffer_Prepend(c, tx) == [c EXCEPT !.newTxs = <<tx>> \o @]
addTxToBuffer(c, tx) == [c EXCEPT !.newTxs = Append(@, tx)]
readyToSend_Off(c) == Len(c.newTxs) > NewTxBufferSize
readyToSend(c) == Len(c.newTxs) >= NewTxBufferSize

\* sendLoop, case sigNewTxs: an empty buffer is left alone (continue loop);
\* otherwise the buffer is encoded and a new empty one takes its place.
drainAndReset_KeepsLast(c) ==
    IF Len(c.newTxs) = 0
    THEN [batch |-> <<>>, c |-> c]
    ELSE [batch |-> c.newTxs, c |-> [c EXCEPT !.newTxs = <<c.newTxs[Len(c.newTxs)]>>]]
drainAndReset(c) ==
    IF Len(c.newTxs) = 0
    THEN [batch |-> <<>>, c |-> c]
    ELSE [batch |-> c.newTxs, c |-> [c EXCEPT !.newTxs = <<>>]]

\* WebsocketHub.addTxToBuffer appends to every registered client; its
\* result is the result of the client the range produced last.
\* MaybeSendTxns then sends tickerSigReset, which waits while
\* bufferTickerChan is full.
NewTxsMsg == HubMessage(sigNewTxs, TxSlice)
MaybeSendTxns_IgnoreTimer(m) ==
    /\ cl' = [c \in Clients |->
                IF c \in clients THEN addTxToBuffer(cl[c], m.Msg.id) ELSE cl[c]]
    /\ \E last \in clients :
         IF readyToSend(cl'[last])
         THEN IF Len(bufferTickerChan) < clientSignalSize
              THEN /\ bufferTickerChan' = Append(bufferTickerChan, tickerSigReset)
                   /\ StartBroadcast(NewTxsMsg, nev + 1)
              ELSE /\ hubpc' = "reset"
                   /\ hubMsg' = [Signal |-> sigNewTxs, Msg |-> TxSlice, n |-> nev + 1]
                   /\ UNCHANGED <<todo, bufferTickerChan>>
         ELSE /\ UNCHANGED bufferTickerChan
              /\ HubStay
MaybeSendTxns(m) ==
    /\ cl' = [c \in Clients |->
                IF c \in clients THEN addTxToBuffer(cl[c], m.Msg.id) ELSE cl[c]]
    /\ \E last \in clients :
         IF readyToSend(cl'[last])
         THEN IF Len(bufferTickerChan) < clientSignalSize
              THEN /\ bufferTickerChan' = Append(bufferTickerChan, tickerSigReset)
                   /\ StartBroadcast(NewTxsMsg, nev + 1)
              ELSE /\ hubpc' = "reset"
                   /\ hubMsg' = [Signal |-> sigNewTxs, Msg |-> TxSlice, n |-> nev + 1]
                   /\ UNCHANGED <<todo, bufferTickerChan>>
         ELSE /\ UNCHANGED bufferTickerChan
              /\ IF timeToSendTxBuffer
                 THEN StartBroadcast(NewTxsMsg, nev + 1)
                 ELSE HubStay

\* case hubMsg, ok := <-wsh.HubRelay, with ok: up to the start of the
\* broadcast.  nev numbers the events that are broadcast or buffered; an
\* event the loop discards changes nothing.
HubDiscard == UNCHANGED <<hubpc, hubMsg, todo, cl, bufferTickerChan, nev>>
HubRelayRecv_NoNilCheck(m) ==
    /\ UNCHANGED roundLog
    /\ IF clients = {} \/ ~IsValid(m)
       THEN HubDiscard
       ELSE CASE m.Signal \in {sigNewBlock, sigPingAndUserCount,
                               sigMempoolUpdate, sigSyncStatus} ->
                   /\ nev < evLimit
                   /\ nev' = nev + 1
                   /\ StartBroadcast(m, nev + 1)
                   /\ UNCHANGED <<cl, bufferTickerChan>>
              [] m.Signal = sigAddressTx ->
                   IF FALSE
                   THEN HubDiscard
                   ELSE /\ nev < evLimit
                        /\ nev' = nev + 1
                        /\ StartBroadcast(m, nev + 1)
                        /\ UNCHANGED <<cl, bufferTickerChan>>
              [] m.Signal = sigNewTx ->
                   IF m.Msg.t # "tx"
                   THEN HubDiscard
                   ELSE /\ nev < evLimit
                        /\ nev' = nev + 1
                        /\ MaybeSendTxns(m)
              [] OTHER -> HubDiscard

HubRelayRecv_NoEmptyCheck(m) ==
    /\ UNCHANGED roundLog
    /\ IF ~IsValid(m)
       THEN HubDiscard
       ELSE CASE m.Signal \in {sigNewBlock, sigPingAndUserCount,
                               sigMempoolUpdate, sigSyncStatus} ->
                   /\ nev < evLimit
                   /\ nev' = nev + 1
                   /\ StartBroadcast(m, nev + 1)
                   /\ UNCHANGED <<cl, bufferTickerChan>>
              [] m.Signal = sigAddressTx ->
                   IF m.Msg.t # "addrptr"
                   THEN HubDiscard
                   ELSE /\ nev < evLimit
                        /\ nev' = nev + 1
                        /\ StartBroadcast(m, nev + 1)
                        /\ UNCHANGED <<cl, bufferTickerChan>>
              [] m.Signal = sigNewTx ->
                   IF m.Msg.t # "tx"
                   THEN HubDiscard
                   ELSE /\ nev < evLimit
                        /\ nev' = nev + 1
                        /\ MaybeSendTxns(m)
              [] OTHER -> HubDiscard

HubRelayRecv_RelaysSubscribe(m) ==
    /\ UNCHANGED roundLog
    /\ IF clients = {} \/ ~IsValid(m)
       THEN HubDiscard
       ELSE CASE m.Signal \in {sigNewBlock, sigPingAndUserCount,
                               sigMempoolUpdate, sigSyncStatus,
                               sigSubscribe, sigUnsubscribe} ->
                   /\ nev < evLimit
                   /\ nev' = nev + 1
                   /\ StartBroadcast(m, nev + 1)
                   /\ UNCHANGED <<cl, bufferTickerChan>>
              [] m.Signal = sigAddressTx ->
                   IF m.Msg.t # "addrptr"
                   THEN HubDiscard
                   ELSE /\ nev < evLimit
                        /\ nev' = nev + 1
                        /\ StartBroadcast(m, nev + 1)
                        /\ UNCHANGED <<cl, bufferTickerChan>>
              [] m.Signal = sigNewTx ->
                   IF m.Msg.t # "tx"
                   THEN HubDiscard
                   ELSE /\ nev < evLimit
                        /\ nev' = nev + 1
                        /\ MaybeSendTxns(m)
              [] OTHER -> HubDiscard

HubRelayRecv(m) ==
    /\ UNCHANGED roundLog
    /\ IF clients = {} \/ ~IsValid(m)
       THEN HubDiscard
       ELSE CASE m.Signal \in {sigNewBlock, sigPingAndUserCount,
                               sigMempoolUpdate, sigSyncStatus} ->
                   /\ nev < evLimit
                   /\ nev' = nev + 1
                   /\ StartBroadcast(m, nev + 1)
                   /\ UNCHANGED <<cl, bufferTickerChan>>
              [] m.Signal = sigAddressTx ->
                   IF m.Msg.t # "addrptr"
                   THEN HubDiscard
                   ELSE /\ nev < evLimit
                        /\ nev' = nev + 1
                        /\ StartBroadcast(m, nev + 1)
                        /\ UNCHANGED <<cl, bufferTickerChan>>
              [] m.Signal = sigNewTx ->
                   IF m.Msg.t # "tx"
                   THEN HubDiscard
                   ELSE /\ nev < evLimit
                        /\ nev' = nev + 1
                        /\ MaybeSendTxns(m)
              [] OTHER -> HubDiscard

relayFrame == <<clients, numClients, timeToSendTxBuffer, bufferTickerChanClosed,
                quitClosed, relayClosed, stopPingClosed, tickpc, stoppc,
                connpc, recvpc, sendpc, spoke, closes, panicked,
                evLimit, lastTaken, closedBy, calls,
                   lastBatch, reqLog>>

\* A new transaction (from the mempool monitor), and events the loop
\* discards.
NewTxEvent == HubMessage(sigNewTx, TxPtr(0))
BadEvents ==
    {HubMessage(sigSubscribe, NilMsg), HubMessage(sigAddressTx, AddrVal("Addr1")),
     HubMessage(sigAddressTx, NilAddrPtr)}
\* Events the goroutines started by Store send; HubRecv also stands for
\* their receipt where the model does not follow the sender.
StoreEvents ==
    {HubMessage(sigNewBlock, NilMsg), HubMessage(sigAddressTx, AddrPtr("Addr1"))}
PingMsg == HubMessage(sigPingAndUserCount, NilMsg)

HubRecv(m) ==
    /\ Alive /\ hubpc = "select" /\ ~relayClosed
    /\ HubRelayRecv(IF m = NewTxEvent
                    THEN HubMessage(sigNewTx, TxPtr(nev + 1)) ELSE m)
    /\ UNCHANGED <<relayFrame, pingpc, prodpc, prodMsg>>

HubRecvPing ==
    /\ Alive /\ hubpc = "select" /\ ~relayClosed
    /\ pingpc = "send"
    /\ pingpc' = "wait"
    /\ HubRelayRecv(PingMsg)
    /\ UNCHANGED <<relayFrame, prodpc, prodMsg>>

HubRecvStore ==
    /\ Alive /\ hubpc = "select" /\ ~relayClosed
    /\ prodpc = "send"
    /\ prodpc' = "idle"
    /\ prodMsg' = NoMsg
    /\ HubRelayRecv(prodMsg)
    /\ UNCHANGED <<relayFrame, pingpc>>

\* case hubMsg, ok := <-wsh.HubRelay, with !ok
HubRecvClosed ==
    /\ Alive /\ hubpc = "select" /\ relayClosed
    /\ HubReturn
    /\ UNCHANGED <<numClients, timeToSendTxBuffer, bufferTickerChan,
                   bufferTickerChanClosed, quitClosed, relayClosed,
                   stopPingClosed, procVars, connpc, recvpc, sendpc,
                   cl, spoke, evLimit, nev, lastTaken, roundLog, calls,
                   lastBatch, reqLog>>


\* case ch := <-wsh.Register, with the sender NewClientHubSpoke; the handler
\* then starts receiveLoop and sendLoop.
HubRecvRegister(c) ==
    /\ Alive /\ hubpc = "select"
    /\ connpc[c] = "register"
    /\ registerClient(c)
    /\ connpc' = [connpc EXCEPT ![c] = "up"]
    /\ recvpc' = [recvpc EXCEPT ![c] = "run"]
    /\ sendpc' = [sendpc EXCEPT ![c] = "run"]
    /\ UNCHANGED <<timeToSendTxBuffer, bufferTickerChan, bufferTickerChanClosed,
                   quitClosed, relayClosed, stopPingClosed, hubpc, hubMsg, todo,
                   procVars, cl, spoke, closes, histVars>>

\* case c := <-wsh.Unregister, with the sender UnregisterClient deferred by
\* receiveLoop.
HubRecvUnregister(c) ==
    /\ Alive /\ hubpc = "select"
    /\ recvpc[c] = "unreg"
    /\ unregisterClient(c, "unreg")
    /\ recvpc' = [recvpc EXCEPT ![c] = "close"]
    /\ UNCHANGED <<timeToSendTxBuffer, bufferTickerChan, bufferTickerChanClosed,
                   quitClosed, relayClosed, stopPingClosed, hubpc, hubMsg, todo,
                   procVars, connpc, sendpc, cl, spoke,
                   evLimit, nev, lastTaken, roundLog, calls,
                   lastBatch, reqLog>>

\* wsh.bufferTickerChan <- tickerSigStop, then return
SendStopAndReturn ==
    IF Len(bufferTickerChan) < clientSignalSize
    THEN /\ bufferTickerChan' = Append(bufferTickerChan, tickerSigStop)
         /\ HubReturn
    ELSE /\ hubpc' = "stop"
         /\ UNCHANGED <<bufferTickerChan, hubMsg, todo, clients, numClients,
                        closes, closedBy, panicked>>

\* case _, ok := <-wsh.quitWSHandler, with the sender Stop
HubRecvQuit ==
    /\ Alive /\ hubpc = "select"
    /\ stoppc = "quit"
    /\ stoppc' = "close"
    /\ quitClosed' = TRUE
    /\ SendStopAndReturn
    /\ UNCHANGED <<numClients, timeToSendTxBuffer, bufferTickerChanClosed,
                   relayClosed, stopPingClosed, tickpc, pingpc, prodpc, prodMsg,
                   connpc, recvpc, sendpc, cl, spoke,
                   evLimit, nev, lastTaken, roundLog, calls,
                   lastBatch, reqLog>>

\* The send of tickerSigStop completes once bufferTickerChan has room.
HubSendStop ==
    /\ Alive /\ hubpc = "stop"
    /\ Len(bufferTickerChan) < clientSignalSize
    /\ SendStopAndReturn
    /\ UNCHANGED <<numClients, timeToSendTxBuffer, bufferTickerChanClosed,
                   quitClosed, relayClosed, stopPingClosed, procVars,
                   connpc, recvpc, sendpc, cl, spoke,
                   evLimit, nev, lastTaken, roundLog, calls,
                   lastBatch, reqLog>>

\* The send of tickerSigReset completes once bufferTickerChan has room.
HubSendReset ==
    /\ Alive /\ hubpc = "reset"
    /\ Len(bufferTickerChan) < clientSignalSize
    /\ bufferTickerChan' = Append(bufferTickerChan, tickerSigReset)
    /\ StartBroadcast(hubMsg, hubMsg.n)
    /\ UNCHANGED <<clients, numClients, timeToSendTxBuffer, bufferTickerChanClosed,
                   quitClosed, relayClosed, stopPingClosed, procVars,
                   connVars, histVars>>

\* One iteration of the range over wsh.clients: isSubscribed, then the
\* select that sends on the spoke or unregisters the client.
spokeSend(q, m) == Append(q, m)
HubVisit(c) ==
    /\ Alive /\ hubpc = "bcast"
    /\ c \in todo
    /\ todo' = todo \ {c}
    /\ IF ~isSubscribed(cl[c], hubMsg)
       THEN /\ roundLog' = [roundLog EXCEPT ![c] =
                               IF Len(spoke[c]) >= SpokeCap THEN "skipfull" ELSE "skip"]
            /\ UNCHANGED <<spoke, clients, numClients, closes, closedBy, panicked>>
       ELSE IF Len(spoke[c]) < SpokeCap
            THEN /\ spoke' = [spoke EXCEPT ![c] = spokeSend(@, hubMsg)]
                 /\ panicked' = IF spokeClosed(c)
                                THEN "send on closed channel" ELSE panicked
                 /\ roundLog' = [roundLog EXCEPT ![c] = "sent"]
                 /\ UNCHANGED <<clients, numClients, closes, closedBy>>
            ELSE /\ unregisterClient(c, "evict")
                 /\ roundLog' = [roundLog EXCEPT ![c] = "evict"]
                 /\ UNCHANGED spoke
    /\ UNCHANGED <<hubpc, hubMsg, timeToSendTxBuffer,
                   bufferTickerChan, bufferTickerChanClosed, quitClosed,
                   relayClosed, stopPingClosed, procVars, connpc, recvpc,
                   sendpc, cl, evLimit, nev, lastTaken, calls,
                   lastBatch, reqLog>>

\* The range is over: a sigNewTxs round clears timeToSendTxBuffer, and the
\* loop goes back to its select.
HubEndRound_KeepFlag ==
    /\ Alive /\ hubpc = "bcast"
    /\ todo = {}
    /\ hubpc' = "select"
    /\ hubMsg' = NoMsg
    /\ roundLog' = NoLog
    /\ UNCHANGED <<clients, numClients, bufferTickerChan, bufferTickerChanClosed,
                   quitClosed, relayClosed, stopPingClosed, todo, procVars,
                   connVars, panicked, evLimit, nev, lastTaken, closedBy, calls,
                   lastBatch, reqLog, timeToSendTxBuffer>>
HubEndRound ==
    /\ Alive /\ hubpc = "bcast"
    /\ todo = {}
    /\ hubpc' = "select"
    /\ hubMsg' = NoMsg
    /\ roundLog' = NoLog
    /\ timeToSendTxBuffer' =
          IF hubMsg.Signal = sigNewTxs THEN FALSE ELSE timeToSendTxBuffer
    /\ UNCHANGED <<clients, numClients, bufferTickerChan, bufferTickerChanClosed,
                   quitClosed, relayClosed, stopPingClosed, todo, procVars,
                   connVars, panicked, evLimit, nev, lastTaken, closedBy, calls,
                   lastBatch, reqLog>>

\* The deferred "for range wsh.HubRelay" discards what producers still send.
HubDrainPing ==
    /\ Alive /\ hubpc = "drain" /\ ~relayClosed
    /\ pingpc = "send"
    /\ pingpc' = "wait"
    /\ UNCHANGED <<hubVars, tickpc, stoppc, prodpc, prodMsg, connVars, histVars>>

HubDrainStore ==
    /\ Alive /\ hubpc = "drain" /\ ~relayClosed
    /\ prodpc = "send"
    /\ prodpc' = "idle"
    /\ prodMsg' = NoMsg
    /\ UNCHANGED <<hubVars, tickpc, stoppc, pingpc, connVars, histVars>>

\* The drain ends when HubRelay is closed; the deferred close(stopPing)
\* runs and Run returns.
HubDrainEnd ==
    /\ Alive /\ hubpc = "drain" /\ relayClosed
    /\ hubpc' = "done"
    /\ stopPingClosed' = TRUE
    /\ UNCHANGED <<clients, numClients, timeToSendTxBuffer, bufferTickerChan,
                   bufferTickerChanClosed, quitClosed, relayClosed, hubMsg, todo,
                   procVars, connVars, histVars>>

(***************************************************************************)
(* periodicTxBufferSend                                                    *)
(***************************************************************************)
\* case <-ticker.C
TickerFire ==
    /\ Alive /\ tickpc = "run"
    /\ timeToSendTxBuffer' = TRUE
    /\ UNCHANGED <<clients, numClients, bufferTickerChan, bufferTickerChanClosed,
                   quitClosed, relayClosed, stopPingClosed, hubpc, hubMsg, todo,
                   procVars, connVars, histVars>>

\* case sig := <-wsh.bufferTickerChan
TickerRecv ==
    /\ Alive /\ tickpc = "run"
    /\ bufferTickerChan # <<>>
    /\ bufferTickerChan' = Tail(bufferTickerChan)
    /\ IF Head(bufferTickerChan) = tickerSigStop
       THEN bufferTickerChanClosed' = TRUE /\ tickpc' = "done"
       ELSE UNCHANGED <<bufferTickerChanClosed, tickpc>>
    /\ UNCHANGED <<clients, numClients, timeToSendTxBuffer, quitClosed,
                   relayClosed, stopPingClosed, hubpc, hubMsg, todo,
                   pingpc, stoppc, prodpc, prodMsg, connVars, histVars>>

(***************************************************************************)
(* pingClients                                                             *)
(***************************************************************************)
\* case <-ticker.C: the goroutine goes to send on HubRelay.
PingTick ==
    /\ Alive /\ pingpc = "wait"
    /\ pingpc' = "send"
    /\ UNCHANGED <<hubVars, tickpc, stoppc, prodpc, prodMsg, connVars, histVars>>

\* wsh.HubRelay <- ... on the closed HubRelay
PingSendClosed ==
    /\ Alive /\ pingpc = "send" /\ relayClosed
    /\ panicked' = "send on closed channel"
    /\ UNCHANGED <<hubVars, procVars, connVars, evLimit, nev, lastTaken,
                   closedBy, roundLog, calls,
                   lastBatch, reqLog>>

\* case _, ok := <-stopPing
PingStop ==
    /\ Alive /\ pingpc = "wait" /\ stopPingClosed
    /\ pingpc' = "done"
    /\ UNCHANGED <<hubVars, tickpc, stoppc, prodpc, prodMsg, connVars, histVars>>

(***************************************************************************)
(* The goroutines Store starts to signal a new block or an address.        *)
(***************************************************************************)
StoreNotify(m) ==
    /\ Alive /\ prodpc = "idle"
    /\ prodpc' = "send"
    /\ prodMsg' = [Signal |-> m.Signal, Msg |-> m.Msg, n |-> 0]
    /\ UNCHANGED <<hubVars, tickpc, pingpc, stoppc, connVars, histVars>>

\* case <-time.After(time.Second * 10)
StoreTimeout ==
    /\ Alive /\ prodpc = "send"
    /\ prodpc' = "idle"
    /\ prodMsg' = NoMsg
    /\ UNCHANGED <<hubVars, tickpc, pingpc, stoppc, connVars, histVars>>

\* case psh.wsHub.HubRelay <- ... on the closed HubRelay
StoreSendClosed ==
    /\ Alive /\ prodpc = "send" /\ relayClosed
    /\ panicked' = "send on closed channel"
    /\ UNCHANGED <<hubVars, procVars, connVars, evLimit, nev, lastTaken,
                   closedBy, roundLog, calls,
                   lastBatch, reqLog>>

(***************************************************************************)
(* Stop                                                                    *)
(***************************************************************************)
\* Stop is called: it goes to send on quitWSHandler.
StopCall ==
    /\ Alive /\ stoppc = "idle"
    /\ stoppc' = "quit"
    /\ UNCHANGED <<hubVars, tickpc, pingpc, prodpc, prodMsg, connVars, histVars>>

\* close(wsh.HubRelay)
StopClose ==
    /\ Alive /\ stoppc = "close"
    /\ stoppc' = "done"
    /\ relayClosed' = TRUE
    /\ UNCHANGED <<clients, numClients, timeToSendTxBuffer, bufferTickerChan,
                   bufferTickerChanClosed, quitClosed, stopPingClosed, hubpc,
                   hubMsg, todo, tickpc, pingpc, prodpc, prodMsg, connVars,
                   histVars>>


(***************************************************************************)
(* WebSocketHandler, receiveLoop and sendLoop of one connection.           *)
(***************************************************************************)
\* A connection is accepted: NewClientHubSpoke makes the spoke and the
\* client and goes to send them on Register.
Accept(c) ==
    /\ Alive /\ connpc[c] = "none"
    /\ connpc' = [connpc EXCEPT ![c] = "register"]
    /\ UNCHANGED <<hubVars, procVars, recvpc, sendpc, cl, spoke,
                   closes, histVars>>

\* pstypes.ValidateSubscription: what a valid subscription string gives,
\* a bare kind or address:<address>.
SubRequest(kind) == HubMessage(kind, NilMsg)
AddrRequest(a) == HubMessage(sigAddressTx, AddrPtr(a))

\* case "subscribe", with a valid subscription
RecvSubscribe(c, m) ==
    /\ Alive /\ recvpc[c] = "run" /\ ~wsClosed(c)
    /\ cl' = [cl EXCEPT ![c] = subscribe(@, m).c]
    /\ UNCHANGED <<hubVars, procVars, connpc, recvpc, sendpc, spoke,
                   closes, histVars>>

\* case "unsubscribe", with a valid subscription
RecvUnsubscribe(c, m) ==
    /\ Alive /\ recvpc[c] = "run" /\ ~wsClosed(c)
    /\ cl' = [cl EXCEPT ![c] = unsubscribe(@, m).c]
    /\ UNCHANGED <<hubVars, procVars, connpc, recvpc, sendpc, spoke,
                   closes, histVars>>

\* receiveLoop returns (a receive error other than a timeout, or a failed
\* send of a response): the deferred conn.Done() runs.
RecvReturn(c) ==
    /\ Alive /\ recvpc[c] = "run"
    /\ recvpc' = [recvpc EXCEPT ![c] = "unsub"]
    /\ UNCHANGED <<hubVars, procVars, connpc, sendpc, cl, spoke,
                   closes, histVars>>

\* defer conn.client.cl.unsubscribeAll(); receiveLoop then goes to send on
\* Unregister (the deferred UnregisterClient).
RecvUnsubscribeAll(c) ==
    /\ Alive /\ recvpc[c] = "unsub"
    /\ cl' = [cl EXCEPT ![c] = unsubscribeAll(@)]
    /\ recvpc' = [recvpc EXCEPT ![c] = "unreg"]
    /\ UNCHANGED <<hubVars, procVars, connpc, sendpc, spoke,
                   closes, histVars>>

\* defer closeWS(ws), after the send on Unregister was received
RecvCloseWS(c) ==
    /\ Alive /\ recvpc[c] = "close"
    /\ recvpc' = [recvpc EXCEPT ![c] = "done"]
    /\ UNCHANGED <<hubVars, procVars, connpc, sendpc, cl, spoke, closes, histVars>>

\* sendLoop returns: the deferred conn.Done() and closeWS(ws) run.
SendReturn(c) ==
    sendpc' = [sendpc EXCEPT ![c] = "done"]

\* What sendLoop does with a signal it took: "drop" (continue loop without
\* a write) or "write".
sendLoopDecision_NoRecheck(c, sig) ==
    IF ~IsValid(sig) THEN "drop"
    ELSE CASE sig.Signal \in {sigAddressTx, sigNewBlock, sigMempoolUpdate,
                              sigPingAndUserCount} -> "write"
           [] sig.Signal = sigNewTxs ->
                IF Len(c.newTxs) = 0 THEN "drop" ELSE "write"
           [] OTHER -> "drop"
sendLoopDecision(c, sig) ==
    IF ~IsValid(sig) THEN "drop"
    ELSE IF ~isSubscribed(c, sig) THEN "drop"
    ELSE CASE sig.Signal \in {sigAddressTx, sigNewBlock, sigMempoolUpdate,
                              sigPingAndUserCount} -> "write"
           [] sig.Signal = sigNewTxs ->
                IF Len(c.newTxs) = 0 THEN "drop" ELSE "write"
           [] OTHER -> "drop"

spokeRecv_Last(q) == [sig |-> q[Len(q)], rest |-> SubSeq(q, 1, Len(q) - 1)]
spokeRecv(q) == [sig |-> Head(q), rest |-> Tail(q)]

\* case sig, ok := <-updateSigChan, with ok; wrote tells whether
\* websocket.JSON.Send succeeded.
SendTake(c, wrote) ==
    /\ Alive /\ sendpc[c] = "run"
    /\ spoke[c] # <<>>
    /\ LET r == spokeRecv(spoke[c])
           d == sendLoopDecision(cl[c], r.sig)
       IN /\ spoke' = [spoke EXCEPT ![c] = r.rest]
          /\ lastTaken' = [lastTaken EXCEPT ![c] = r.sig.n]
          /\ cl' = IF d = "write" /\ r.sig.Signal = sigNewTxs
                   THEN [cl EXCEPT ![c] = drainAndReset(@).c] ELSE cl
          /\ lastBatch' = IF d = "write" /\ r.sig.Signal = sigNewTxs
                          THEN [lastBatch EXCEPT ![c] = drainAndReset(cl[c]).batch]
                          ELSE lastBatch
          /\ IF d = "write" /\ (wsClosed(c) \/ ~wrote)
             THEN SendReturn(c)
             ELSE UNCHANGED sendpc
    /\ UNCHANGED <<hubVars, procVars, connpc, recvpc, closes,
                   panicked, evLimit, nev, closedBy, roundLog, calls, reqLog>>

\* case sig, ok := <-updateSigChan, with !ok: the spoke is closed and empty.
SendClosed(c) ==
    /\ Alive /\ sendpc[c] = "run"
    /\ spoke[c] = <<>> /\ spokeClosed(c)
    /\ SendReturn(c)
    /\ UNCHANGED <<hubVars, procVars, connpc, recvpc, cl, spoke, closes, histVars>>

\* case <-psh.wsHub.quitWSHandler: sendLoop receives the value Stop sends.
SendQuitValue(c) ==
    /\ Alive /\ sendpc[c] = "run"
    /\ stoppc = "quit"
    /\ stoppc' = "close"
    /\ SendReturn(c)
    /\ UNCHANGED <<hubVars, tickpc, pingpc, prodpc, prodMsg, connpc, recvpc,
                   cl, spoke, closes, histVars>>

\* case <-psh.wsHub.quitWSHandler, with quitWSHandler closed
SendQuitClosed(c) ==
    /\ Alive /\ sendpc[c] = "run"
    /\ quitClosed
    /\ SendReturn(c)
    /\ UNCHANGED <<hubVars, procVars, connpc, recvpc, cl, spoke, closes, histVars>>


(***************************************************************************)
(* Spec: registration, subscription, broadcast with eviction and           *)
(* unregistration.                                                         *)
(***************************************************************************)
CoreRequests == {SubRequest(sigNewBlock), AddrRequest("Addr1")}

ConnStep(c, Reqs) ==
    \/ Accept(c)
    \/ \E m \in Reqs : RecvSubscribe(c, m)
    \/ \E m \in Reqs : RecvUnsubscribe(c, m)
    \/ RecvReturn(c)
    \/ RecvUnsubscribeAll(c)
    \/ RecvCloseWS(c)
    \/ \E wrote \in BOOLEAN : SendTake(c, wrote)
    \/ SendClosed(c)

Next ==
    \/ \E m \in BadEvents \cup StoreEvents : HubRecv(m)
    \/ \E c \in Clients : HubRecvRegister(c)
    \/ \E c \in Clients : HubRecvUnregister(c)
    \/ \E c \in Clients : HubVisit(c)
    \/ HubEndRound
    \/ \E c \in Clients : ConnStep(c, CoreRequests)

Spec == Init /\ [][Next]_vars

(***************************************************************************)
(* SpecClose: Spec with Stop, for what closes a spoke: an eviction, an     *)
(* unregistration and unregisterAllClients.                                *)
(***************************************************************************)
CloseRequests == {SubRequest(sigNewBlock)}
CloseEvents == {HubMessage(sigNewBlock, NilMsg)}

NextClose ==
    \/ \E m \in CloseEvents : HubRecv(m)
    \/ HubRecvClosed
    \/ \E c \in Clients : HubRecvRegister(c)
    \/ \E c \in Clients : HubRecvUnregister(c)
    \/ HubRecvQuit
    \/ \E c \in Clients : HubVisit(c)
    \/ HubEndRound
    \/ HubDrainEnd
    \/ StopCall
    \/ StopClose
    \/ \E c \in Clients : ConnStep(c, CloseRequests)
    \/ \E c \in Clients : SendQuitValue(c)
    \/ \E c \in Clients : SendQuitClosed(c)

SpecClose == Init /\ [][NextClose]_vars

(***************************************************************************)
(* SpecStop: Stop with the ticker goroutine, the ping goroutine and a      *)
(* notification goroutine of Store, which send on HubRelay.                *)
(***************************************************************************)
InitStop == Start(MaxStopEvents)

NextStop ==
    \/ HubRecvStore
    \/ HubRecvPing
    \/ HubRecvClosed
    \/ \E c \in Clients : HubRecvRegister(c)
    \/ \E c \in Clients : HubRecvUnregister(c)
    \/ HubRecvQuit
    \/ \E c \in Clients : HubVisit(c)
    \/ HubEndRound
    \/ HubDrainStore
    \/ HubDrainPing
    \/ HubDrainEnd
    \/ TickerRecv
    \/ PingTick
    \/ PingSendClosed
    \/ PingStop
    \/ StoreNotify(HubMessage(sigNewBlock, NilMsg))
    \/ StoreTimeout
    \/ StoreSendClosed
    \/ StopCall
    \/ StopClose
    \/ \E c \in Clients : ConnStep(c, CloseRequests)
    \/ \E c \in Clients : SendQuitValue(c)
    \/ \E c \in Clients : SendQuitClosed(c)

SpecStop == InitStop /\ [][NextStop]_vars

(***************************************************************************)
(* SpecTx: the transaction buffers, the flush ticker and its control       *)
(* channel, with one connection.                                           *)
(***************************************************************************)
InitTx == Start(MaxTxEvents)
TxRequests == {SubRequest(sigNewTxs)}

NextTx ==
    \/ HubRecv(NewTxEvent)
    \/ HubRecvRegister(1)
    \/ HubVisit(1)
    \/ HubEndRound
    \/ HubSendReset
    \/ HubRecvQuit
    \/ HubSendStop
    \/ TickerFire
    \/ TickerRecv
    \/ StopCall
    \/ Accept(1)
    \/ \E m \in TxRequests : RecvSubscribe(1, m)
    \/ \E wrote \in BOOLEAN : SendTake(1, wrote)
    \/ SendClosed(1)

SpecTx == InitTx /\ [][NextTx]_vars

(***************************************************************************)
(* SpecSub: subscribe, unsubscribe and unsubscribeAll called on a client,  *)
(* as Test_client_subscribe calls them, with every type of payload.        *)
(***************************************************************************)
Kinds == {sigNewBlock, sigMempoolUpdate, sigNewTxs}
CallMsgs ==
    {HubMessage(k, NilMsg) : k \in Kinds}
    \cup {HubMessage(sigAddressTx, AddrPtr(a)) : a \in Addresses}
    \cup {HubMessage(sigAddressTx, AddrVal(a)) : a \in Addresses}
    \cup {HubMessage(sigAddressTx, NilMsg), HubMessage(sigAddressTx, NilAddrPtr)}

View(c) == [subs |-> c.subs, addrs |-> c.addrs]
Remember(op, m, err, pre, post) ==
    LET rec == [op |-> op, msg |-> m, err |-> err,
                pre |-> View(pre), post |-> View(post)]
    IN calls' = IF Len(calls) < MaxCalls
                THEN Append(calls, rec) ELSE Append(Tail(calls), rec)

callFrame == <<hubVars, procVars, connpc, recvpc, sendpc, spoke, closes,
               evLimit, nev, lastTaken, closedBy, roundLog, lastBatch, reqLog>>

CallSubscribe(m) ==
    /\ Alive
    /\ LET r == subscribe(cl[1], m)
       IN /\ cl' = [cl EXCEPT ![1] = r.c]
          /\ panicked' = IF r.err = "panic" THEN "nil pointer dereference" ELSE panicked
          /\ Remember("subscribe", m, r.err, cl[1], r.c)
    /\ UNCHANGED callFrame

CallUnsubscribe(m) ==
    /\ Alive
    /\ LET r == unsubscribe(cl[1], m)
       IN /\ cl' = [cl EXCEPT ![1] = r.c]
          /\ panicked' = IF r.err = "panic" THEN "nil pointer dereference" ELSE panicked
          /\ Remember("unsubscribe", m, r.err, cl[1], r.c)
    /\ UNCHANGED callFrame

CallUnsubscribeAll ==
    /\ Alive
    /\ cl' = [cl EXCEPT ![1] = unsubscribeAll(@)]
    /\ Remember("unsubscribeAll", NoMsg, "", cl[1], cl'[1])
    /\ UNCHANGED <<callFrame, panicked>>

NextSub ==
    \/ \E m \in CallMsgs : CallSubscribe(m)
    \/ \E m \in CallMsgs : CallUnsubscribe(m)
    \/ CallUnsubscribeAll

SpecSub == Init /\ [][NextSub]_vars

(***************************************************************************)
(* SpecIsSub: the calls of SpecSub, and isSubscribed called on the client  *)
(* with every type of payload.                                             *)
(***************************************************************************)
\* c.isSubscribed(m): the result recorded is "true", "false" or "panic".
\* isSubscribed only reads the client.
CallIsSubscribed(m) ==
    /\ Alive
    /\ LET res == IF isSubscribedPanics(cl[1], m) THEN "panic"
                  ELSE IF isSubscribed(cl[1], m) THEN "true" ELSE "false"
       IN /\ panicked' = IF res = "panic" THEN "nil pointer dereference"
                         ELSE panicked
          /\ Remember("isSubscribed", m, res, cl[1], cl[1])
    /\ UNCHANGED <<callFrame, cl>>

NextIsSub ==
    \/ \E m \in CallMsgs : CallSubscribe(m)
    \/ \E m \in CallMsgs : CallUnsubscribe(m)
    \/ CallUnsubscribeAll
    \/ \E m \in CallMsgs : CallIsSubscribed(m)

SpecIsSub == Init /\ [][NextIsSub]_vars

(***************************************************************************)
(* receiveLoop, one iteration for each outcome of websocket.JSON.Receive.  *)
(***************************************************************************)
\* pstypes.ValidateSubscription on the request's message.  "bogus" is a
\* string it does not accept; "address-untyped" stands for a result with
\* the address kind whose payload is not a *AddressMessage, which is what
\* the err != nil branches after subscribe and unsubscribe handle.
SubscriptionStrings == {"newblock", "address:Addr1", "bogus", "address-untyped"}
ValidateSubscription(str) ==
    CASE str = "newblock" -> [valid |-> TRUE, msg |-> SubRequest(sigNewBlock)]
      [] str = "address:Addr1" -> [valid |-> TRUE, msg |-> AddrRequest("Addr1")]
      [] str = "address-untyped" ->
            [valid |-> TRUE, msg |-> HubMessage(sigAddressTx, AddrVal("Addr1"))]
      [] OTHER -> [valid |-> FALSE, msg |-> HubMessage(sigUnknown, NilMsg)]

\* A received WebSocketMessage: big tells whether len(msg.Message) exceeds
\* requestLimit.
Request(id, str, big) == [EventId |-> id, Message |-> str, big |-> big]
Requests ==
    {Request(id, str, FALSE) :
        id \in {"subscribe", "unsubscribe"}, str \in SubscriptionStrings}
    \cup {Request(id, "hex", FALSE) :
            id \in {"decodetx", "sendtx", "getmempooltxs", "ping", "other"}}
    \cup {Request("subscribe", "newblock", TRUE), Request("ping", "hex", TRUE)}

\* The switch on msg.EventId: the response's text ("" when the iteration
\* continues without a response) and the client afterwards.
switchEventId_NoResponseOnError(c, req) ==
    CASE req.EventId = "subscribe" ->
            LET v == ValidateSubscription(req.Message)
                r == subscribe(c, v.msg)
            IN IF ~v.valid \/ r.err # "" THEN [text |-> "", c |-> c]
               ELSE [text |-> "subscribe ok", c |-> r.c]
      [] req.EventId = "unsubscribe" ->
            LET v == ValidateSubscription(req.Message)
                r == unsubscribe(c, v.msg)
            IN IF ~v.valid \/ r.err # "" THEN [text |-> "", c |-> c]
               ELSE [text |-> "unsubscribe ok", c |-> r.c]
      [] req.EventId \in {"decodetx", "sendtx", "getmempooltxs"} ->
            [text |-> "result", c |-> c]
      [] OTHER -> [text |-> "", c |-> c]
switchEventId(c, req) ==
    CASE req.EventId = "subscribe" ->
            LET v == ValidateSubscription(req.Message)
                r == subscribe(c, v.msg)
            IN IF ~v.valid THEN [text |-> "invalid subscription", c |-> c]
               ELSE IF r.err # "" THEN [text |-> "invalid subscription", c |-> r.c]
               ELSE [text |-> "subscribe ok", c |-> r.c]
      [] req.EventId = "unsubscribe" ->
            LET v == ValidateSubscription(req.Message)
                r == unsubscribe(c, v.msg)
            IN IF ~v.valid THEN [text |-> "invalid subscription", c |-> c]
               ELSE IF r.err # "" THEN [text |-> "invalid subscription", c |-> r.c]
               ELSE [text |-> "unsubscribe ok", c |-> r.c]
      [] req.EventId \in {"decodetx", "sendtx", "getmempooltxs"} ->
            [text |-> "result", c |-> c]
      [] OTHER -> [text |-> "", c |-> c]

reqFrame == <<hubVars, procVars, connpc, sendpc, spoke, closes, panicked,
              evLimit, nev, lastTaken, closedBy, roundLog, calls, lastBatch>>

\* websocket.JSON.Receive returns a message: the size check, the switch and
\* the send of the response; sendOk tells whether websocket.JSON.Send
\* succeeds.
RecvRequest(c, req, sendOk) ==
    /\ Alive /\ recvpc[c] = "run" /\ ~wsClosed(c)
    /\ LET respId == req.EventId \o "Resp"
           log(text, sent) ==
               [conn |-> c, EventId |-> req.EventId, Message |-> req.Message,
                big |-> req.big, text |-> text, respId |-> respId, sent |-> sent]
           r == switchEventId(cl[c], req)
       IN IF req.big
          THEN /\ reqLog' = log("Request too large", "none")
               /\ UNCHANGED <<cl, recvpc>>
          ELSE /\ cl' = [cl EXCEPT ![c] = r.c]
               /\ IF r.text = ""
                  THEN /\ reqLog' = log("", "none")
                       /\ UNCHANGED recvpc
                  ELSE IF sendOk
                  THEN /\ reqLog' = log(r.text, "ok")
                       /\ UNCHANGED recvpc
                  ELSE /\ reqLog' = log(r.text, "failed")
                       /\ recvpc' = [recvpc EXCEPT ![c] = "unsub"]
    /\ UNCHANGED reqFrame

\* websocket.JSON.Receive returns a timeout: continue.
RecvTimeout(c) ==
    /\ Alive /\ recvpc[c] = "run" /\ ~wsClosed(c)
    /\ reqLog' = [NoReq EXCEPT !.conn = c, !.EventId = "timeout"]
    /\ UNCHANGED <<reqFrame, cl, recvpc>>

(***************************************************************************)
(* SpecReq: the requests of two connections, with a running hub.           *)
(***************************************************************************)
InitReq == Start(MaxReqEvents)

NextReq ==
    \/ \E m \in CloseEvents : HubRecv(m)
    \/ \E c \in Clients : HubRecvRegister(c)
    \/ \E c \in Clients : HubRecvUnregister(c)
    \/ \E c \in Clients : HubVisit(c)
    \/ HubEndRound
    \/ \E c \in Clients : Accept(c)
    \/ \E c \in Clients, req \in Requests, sendOk \in BOOLEAN :
          RecvRequest(c, req, sendOk)
    \/ \E c \in Clients : RecvTimeout(c)
    \/ \E c \in Clients : RecvReturn(c)
    \/ \E c \in Clients : RecvUnsubscribeAll(c)
    \/ \E c \in Clients : RecvCloseWS(c)
    \/ \E c \in Clients, wrote \in BOOLEAN : SendTake(c, wrote)
    \/ \E c \in Clients : SendClosed(c)

SpecReq == InitReq /\ [][NextReq]_vars

(***************************************************************************)
(* SpecLive: the two loops of each connection with a running hub and no    *)
(* Stop, under the scheduling of the Go runtime: Run goes on with its      *)
(* range and receives what is sent on Unregister, deferred calls run, a    *)
(* Receive on a closed websocket.Conn fails, and sendLoop takes what its   *)
(* channel offers.                                                         *)
(***************************************************************************)
InitLive == Start(MaxLiveEvents)
LiveRequests ==
    {Request("subscribe", str, FALSE) : str \in {"newblock", "address:Addr1"}}

NextLive ==
    \/ \E m \in CloseEvents : HubRecv(m)
    \/ \E c \in Clients : HubRecvRegister(c)
    \/ \E c \in Clients : HubRecvUnregister(c)
    \/ \E c \in Clients : HubVisit(c)
    \/ HubEndRound
    \/ \E c \in Clients : Accept(c)
    \/ \E c \in Clients, req \in LiveRequests, sendOk \in BOOLEAN :
           RecvRequest(c, req, sendOk)
    \/ \E c \in Clients : RecvTimeout(c)
    \/ \E c \in Clients : RecvReturn(c)
    \/ \E c \in Clients : RecvUnsubscribeAll(c)
    \/ \E c \in Clients : RecvCloseWS(c)
    \/ \E c \in Clients, wrote \in BOOLEAN : SendTake(c, wrote)
    \/ \E c \in Clients : SendClosed(c)

FairLive ==
    /\ WF_vars(\E c \in Clients : HubVisit(c))
    /\ WF_vars(HubEndRound)
    /\ \A c \in Clients :
          /\ WF_vars(HubRecvUnregister(c))
          /\ WF_vars(RecvUnsubscribeAll(c))
          /\ WF_vars(RecvCloseWS(c))
          /\ WF_vars(wsClosed(c) /\ RecvReturn(c))
          /\ WF_vars(\E wrote \in BOOLEAN : SendTake(c, wrote))
          /\ WF_vars(SendClosed(c))

SpecLive == InitLive /\ [][NextLive]_vars /\ FairLive

(***************************************************************************)
(* SpecConn: a connection from its accept to the return of its handler.    *)
(***************************************************************************)
\* conn.Wait() returns once both loops have run their deferred conn.Done():
\* the first deferred call of receiveLoop to run, and of sendLoop.
HandlerReturn(c) ==
    /\ Alive /\ connpc[c] = "up"
    /\ recvpc[c] \in {"unsub", "unreg", "close", "done"}
    /\ sendpc[c] = "done"
    /\ connpc' = [connpc EXCEPT ![c] = "returned"]
    /\ UNCHANGED <<hubVars, procVars, recvpc, sendpc, cl, spoke, closes, histVars>>

NextConn ==
    \/ NextLive
    \/ \E c \in Clients : HandlerReturn(c)

SpecConn == InitLive /\ [][NextConn]_vars

(***************************************************************************)
(* SpecQuit: Stop, the hub, the flush ticker and the loops of each         *)
(* connection, under the scheduling of the Go runtime: the value Stop      *)
(* sends on quitWSHandler is received by one of the goroutines that        *)
(* select on it, Stop goes on to close HubRelay, Run goes on with its      *)
(* range and its deferred calls, and each loop takes what its select       *)
(* offers.                                                                 *)
(***************************************************************************)
InitQuit == Start(MaxQuitEvents)

NextQuit ==
    \/ \E m \in CloseEvents : HubRecv(m)
    \/ HubRecvClosed
    \/ \E c \in Clients : HubRecvRegister(c)
    \/ \E c \in Clients : HubRecvUnregister(c)
    \/ HubRecvQuit
    \/ \E c \in Clients : HubVisit(c)
    \/ HubEndRound
    \/ HubDrainEnd
    \/ TickerFire
    \/ TickerRecv
    \/ StopCall
    \/ StopClose
    \/ \E c \in Clients : Accept(c)
    \/ \E c \in Clients, m \in CloseRequests : RecvSubscribe(c, m)
    \/ \E c \in Clients : RecvReturn(c)
    \/ \E c \in Clients : RecvUnsubscribeAll(c)
    \/ \E c \in Clients : RecvCloseWS(c)
    \/ \E c \in Clients, wrote \in BOOLEAN : SendTake(c, wrote)
    \/ \E c \in Clients : SendClosed(c)
    \/ \E c \in Clients : SendQuitValue(c)
    \/ \E c \in Clients : SendQuitClosed(c)

FairQuit ==
    /\ WF_vars(HubRecvQuit \/ \E c \in Clients : SendQuitValue(c))
    /\ WF_vars(StopClose)
    /\ WF_vars(HubRecvClosed)
    /\ WF_vars(\E c \in Clients : HubVisit(c))
    /\ WF_vars(HubEndRound)
    /\ WF_vars(HubDrainEnd)
    /\ WF_vars(TickerRecv)
    /\ \A c \in Clients :
          /\ WF_vars(HubRecvUnregister(c))
          /\ WF_vars(RecvUnsubscribeAll(c))
          /\ WF_vars(RecvCloseWS(c))
          /\ WF_vars(wsClosed(c) /\ RecvReturn(c))
          /\ WF_vars(\E wrote \in BOOLEAN : SendTake(c, wrote))
          /\ WF_vars(SendClosed(c))
          /\ WF_vars(SendQuitClosed(c))

SpecQuit == InitQuit /\ [][NextQuit]_vars /\ FairQuit

(***************************************************************************)
(* SpecInject: the senders on HubRelay (the ping goroutine and the         *)
(* notification goroutines of Store) with a running hub and one            *)
(* connection.  The fairness is that of the senders alone: a timer that a  *)
(* select waits on fires.  Nothing is assumed of Run, which may stay away  *)
(* from its receive of HubRelay.                                           *)
(***************************************************************************)
InitInject == Start(MaxInjectEvents)

NextInject ==
    \/ HubRecvStore
    \/ HubRecvPing
    \/ HubRecvRegister(1)
    \/ HubVisit(1)
    \/ HubEndRound
    \/ PingTick
    \/ \E m \in StoreEvents : StoreNotify(m)
    \/ StoreTimeout
    \/ Accept(1)
    \/ \E m \in CoreRequests : RecvSubscribe(1, m)
    \/ \E wrote \in BOOLEAN : SendTake(1, wrote)

FairInject == WF_vars(StoreTimeout)

SpecInject == InitInject /\ [][NextInject]_vars /\ FairInject

(***************************************************************************)
(* SpecStore: the notification goroutines of Store with the hub, Stop and  *)
(* one connection, under the same fairness.                                *)
(***************************************************************************)
NextStore ==
    \/ HubRecvStore
    \/ HubRecvClosed
    \/ HubRecvRegister(1)
    \/ HubRecvQuit
    \/ HubVisit(1)
    \/ HubEndRound
    \/ HubDrainStore
    \/ HubDrainEnd
    \/ \E m \in StoreEvents : StoreNotify(m)
    \/ StoreTimeout
    \/ StoreSendClosed
    \/ StopCall
    \/ StopClose
    \/ Accept(1)
    \/ \E m \in CoreRequests : RecvSubscribe(1, m)
    \/ \E wrote \in BOOLEAN : SendTake(1, wrote)
    \/ SendClosed(1)
    \/ SendQuitValue(1)
    \/ SendQuitClosed(1)

SpecStore == InitInject /\ [][NextStore]_vars /\ FairInject

(***************************************************************************)
(* SpecRelay: what Run does with each kind of message it receives from     *)
(* HubRelay, well-formed or not, with an empty or a non-empty registry,    *)
(* and how it leaves its loop, with one connection.  calls remembers the   *)
(* last message received.                                                  *)
(***************************************************************************)
InitRelay == Start(MaxRelayEvents)

RelayEvents ==
    {HubMessage(sigNewBlock, NilMsg), HubMessage(sigMempoolUpdate, NilMsg),
     PingMsg, NewTxEvent,
     HubMessage(sigAddressTx, AddrPtr("Addr1")),
     HubMessage(sigAddressTx, NilAddrPtr),
     HubMessage(sigAddressTx, AddrVal("Addr1")),
     HubMessage(sigAddressTx, NilMsg),
     HubMessage(sigNewTx, NilMsg),
     HubMessage(sigNewTx, AddrPtr("Addr1")),
     HubMessage(sigSubscribe, NilMsg), HubMessage(sigUnsubscribe, NilMsg),
     HubMessage(sigUnknown, NilMsg)}
RelayRequests ==
    {SubRequest(sigNewBlock), SubRequest(sigNewTxs), AddrRequest("Addr1"),
     SubRequest(sigSubscribe)}

relayFrame0 == <<clients, numClients, timeToSendTxBuffer, bufferTickerChanClosed,
                 quitClosed, relayClosed, stopPingClosed, tickpc, stoppc,
                 connpc, recvpc, sendpc, spoke, closes, panicked,
                 evLimit, lastTaken, closedBy, lastBatch, reqLog>>

\* case hubMsg, ok := <-wsh.HubRelay, with ok, remembering the message
HubRecvLogged(m) ==
    /\ Alive /\ hubpc = "select" /\ ~relayClosed
    /\ LET msg == IF m = NewTxEvent
                  THEN HubMessage(sigNewTx, TxPtr(nev + 1)) ELSE m
       IN /\ HubRelayRecv(msg)
          /\ calls' = <<[op |-> "relay", m |-> msg]>>
    /\ UNCHANGED <<relayFrame0, pingpc, prodpc, prodMsg>>

NextRelay ==
    \/ \E m \in RelayEvents : HubRecvLogged(m)
    \/ HubRecvClosed
    \/ HubRecvRegister(1)
    \/ HubRecvQuit
    \/ HubVisit(1)
    \/ HubEndRound
    \/ HubDrainEnd
    \/ TickerFire
    \/ TickerRecv
    \/ StopCall
    \/ StopClose
    \/ Accept(1)
    \/ \E m \in RelayRequests : RecvSubscribe(1, m)
    \/ \E wrote \in BOOLEAN : SendTake(1, wrote)
    \/ SendClosed(1)
    \/ SendQuitValue(1)
    \/ SendQuitClosed(1)

SpecRelay == InitRelay /\ [][NextRelay]_vars

(***************************************************************************)
(* SpecTick: the transaction buffer of one connection and the flush        *)
(* ticker, under the scheduling of the Go runtime: the ticker fires,       *)
(* periodicTxBufferSend takes what bufferTickerChan holds, Run finishes    *)
(* its range and sendLoop takes what its channel offers.  Nothing is       *)
(* assumed of the arrival of transactions.                                 *)
(***************************************************************************)
InitTick == Start(MaxTickEvents)

NextTick ==
    \/ HubRecv(NewTxEvent)
    \/ HubRecvRegister(1)
    \/ HubVisit(1)
    \/ HubEndRound
    \/ TickerFire
    \/ TickerRecv
    \/ Accept(1)
    \/ \E m \in TxRequests : RecvSubscribe(1, m)
    \/ \E wrote \in BOOLEAN : SendTake(1, wrote)

FairTick ==
    /\ WF_vars(TickerFire)
    /\ WF_vars(TickerRecv)
    /\ WF_vars(HubVisit(1))
    /\ WF_vars(HubEndRound)
    /\ WF_vars(\E wrote \in BOOLEAN : SendTake(1, wrote))

SpecTick == InitTick /\ [][NextTick]_vars /\ FairTick

(***************************************************************************)
(* SpecDrain: one connection that subscribes to and unsubscribes from      *)
(* sigNewTxs and sigNewBlock while Run broadcasts and sendLoop takes the   *)
(* signals from the spoke.                                                 *)
(***************************************************************************)
MaxDrainEvents == 3
InitDrain == Start(MaxDrainEvents)
DrainRequests == {SubRequest(sigNewTxs), SubRequest(sigNewBlock)}

NextDrain ==
    \/ HubRecv(NewTxEvent)
    \/ HubRecv(HubMessage(sigNewBlock, NilMsg))
    \/ HubRecvRegister(1)
    \/ HubVisit(1)
    \/ HubEndRound
    \/ TickerFire
    \/ Accept(1)
    \/ \E m \in DrainRequests : RecvSubscribe(1, m)
    \/ \E m \in DrainRequests : RecvUnsubscribe(1, m)
    \/ \E wrote \in BOOLEAN : SendTake(1, wrote)

SpecDrain == InitDrain /\ [][NextDrain]_vars

(***************************************************************************)
(* SpecLate: one connection that may subscribe to sigNewTxs after Run has  *)
(* received transactions; the number of the last transaction received      *)
(* before the subscription is recorded.                                    *)
(***************************************************************************)
MaxLateEvents == 3
InitLate == Start(MaxLateEvents)

\* case "subscribe" of receiveLoop, as RecvSubscribe; the first
\* subscription to sigNewTxs records how many transactions Run has
\* received by then.
RecvSubscribeLogged(c, m) ==
    /\ Alive /\ recvpc[c] = "run" /\ ~wsClosed(c)
    /\ cl' = [cl EXCEPT ![c] = subscribe(@, m).c]
    /\ calls' = IF m.Signal = sigNewTxs /\ sigNewTxs \notin cl[c].subs
                THEN <<[op |-> "subscribe", at |-> nev]>> ELSE calls
    /\ UNCHANGED <<hubVars, procVars, connpc, recvpc, sendpc, spoke,
                   closes, panicked, evLimit, nev, lastTaken, closedBy,
                   roundLog, lastBatch, reqLog>>

NextLate ==
    \/ HubRecv(NewTxEvent)
    \/ HubRecvRegister(1)
    \/ HubVisit(1)
    \/ HubEndRound
    \/ TickerFire
    \/ Accept(1)
    \/ \E m \in TxRequests : RecvSubscribeLogged(1, m)
    \/ \E wrote \in BOOLEAN : SendTake(1, wrote)

SpecLate == InitLate /\ [][NextLate]_vars

(***************************************************************************)
(* SpecFlush: the decision to flush, with two connections whose buffers    *)
(* differ.                                                                 *)
(***************************************************************************)
InitFlush == Start(MaxFlushEvents)

NextFlush ==
    \/ HubRecv(NewTxEvent)
    \/ \E c \in Clients : HubRecvRegister(c)
    \/ \E c \in Clients : HubVisit(c)
    \/ HubEndRound
    \/ TickerFire
    \/ TickerRecv
    \/ \E c \in Clients : Accept(c)
    \/ \E c \in Clients, m \in TxRequests : RecvSubscribe(c, m)

SpecFlush == InitFlush /\ [][NextFlush]_vars

(***************************************************************************)
(* SpecCoalesce: one connection, registered and subscribed to sigNewTxs    *)
(* before the first transaction, and a flush ticker that does not fire.    *)
(***************************************************************************)
InitCoalesce ==
    /\ clients = {1}
    /\ numClients = 1
    /\ timeToSendTxBuffer = FALSE
    /\ bufferTickerChan = <<>>
    /\ bufferTickerChanClosed = FALSE
    /\ quitClosed = FALSE
    /\ relayClosed = FALSE
    /\ stopPingClosed = FALSE
    /\ hubpc = "select"
    /\ hubMsg = NoMsg
    /\ todo = {}
    /\ tickpc = "run"
    /\ pingpc = "wait"
    /\ stoppc = "idle"
    /\ prodpc = "idle"
    /\ prodMsg = NoMsg
    /\ connpc = [c \in Clients |-> IF c = 1 THEN "up" ELSE "none"]
    /\ recvpc = [c \in Clients |-> IF c = 1 THEN "run" ELSE "idle"]
    /\ sendpc = [c \in Clients |-> IF c = 1 THEN "run" ELSE "idle"]
    /\ cl = [c \in Clients |->
               IF c = 1 THEN subscribe(newClient, SubRequest(sigNewTxs)).c
               ELSE newClient]
    /\ spoke = [c \in Clients |-> <<>>]
    /\ closes = [c \in Clients |-> 0]
    /\ panicked = ""
    /\ evLimit = MaxCoalesceEvents
    /\ nev = 0
    /\ lastTaken = [c \in Clients |-> 0]
    /\ closedBy = [c \in Clients |-> ""]
    /\ roundLog = NoLog
    /\ calls = <<>>
    /\ lastBatch = [c \in Clients |-> <<>>]
    /\ reqLog = NoReq

NextCoalesce ==
    \/ HubRecv(NewTxEvent)
    \/ HubVisit(1)
    \/ HubEndRound
    \/ TickerRecv
    \/ \E wrote \in BOOLEAN : SendTake(1, wrote)

SpecCoalesce == InitCoalesce /\ [][NextCoalesce]_vars

(***************************************************************************)
(* SpecBuf: one client's transaction buffer alone: addTxToBuffer, and the  *)
(* drain of sendLoop's case sigNewTxs.                                     *)
(***************************************************************************)
InitBuf == Start(MaxBufEvents)

bufFrame == <<hubVars, procVars, connpc, recvpc, sendpc, spoke, closes,
              panicked, evLimit, lastTaken, closedBy, roundLog, reqLog>>

\* client.newTxs.addTxToBuffer(tx), for the transaction number nev + 1
CallAddTx ==
    /\ Alive /\ nev < evLimit
    /\ nev' = nev + 1
    /\ LET c == addTxToBuffer(cl[1], nev + 1)
       IN /\ cl' = [cl EXCEPT ![1] = c]
          /\ Remember("addTx", HubMessage(sigNewTx, TxPtr(nev + 1)),
                      IF readyToSend(c) THEN "ready" ELSE "", cl[1], c)
    /\ UNCHANGED <<bufFrame, lastBatch>>

\* the body of sendLoop's case sigNewTxs
CallDrain ==
    /\ Alive
    /\ LET r == drainAndReset(cl[1])
       IN /\ cl' = [cl EXCEPT ![1] = r.c]
          /\ lastBatch' = IF cl[1].newTxs = <<>> THEN lastBatch
                          ELSE [lastBatch EXCEPT ![1] = r.batch]
          /\ Remember("drain", NoMsg, "", cl[1], r.c)
    /\ UNCHANGED <<bufFrame, nev>>

NextBuf == CallAddTx \/ CallDrain

SpecBuf == InitBuf /\ [][NextBuf]_vars

(***************************************************************************)
(* The properties.                                                         *)
(***************************************************************************)
\* The client is subscribed to the message of the round, by its two sets.
Subscribed(c) ==
    /\ hubMsg.Signal \in cl[c].subs
    /\ hubMsg.Signal = sigAddressTx => hubMsg.Msg.a \in cl[c].addrs
\* This step is the round's iteration for client c.
Visited(c) == hubpc = "bcast" /\ c \in todo /\ c \notin todo'

\* C1: in a broadcast round every registered client is visited; a visited
\* client that is subscribed to the event is removed from the registry and
\* its channel closed if the channel is full, and has the event enqueued at
\* the tail of its channel (staying registered) if the channel has room.
C1_VisitStep ==
    \A c \in Clients :
        Visited(c) /\ Subscribed(c) =>
            /\ c \in clients
            /\ IF Len(spoke[c]) >= SpokeCap
               THEN /\ c \notin clients'
                    /\ closes'[c] = closes[c] + 1
                    /\ spoke'[c] = spoke[c]
               ELSE /\ c \in clients'
                    /\ closes'[c] = closes[c]
                    /\ spoke'[c] = Append(spoke[c], hubMsg)
            /\ \A d \in Clients \ {c} :
                   /\ spoke'[d] = spoke[d] \/ Len(spoke'[d]) < Len(spoke[d])
                   /\ closes'[d] = closes[d]
                   /\ d \in clients' <=> d \in clients
C1_RoundCovers ==
    /\ hubpc # "bcast" /\ hubpc' = "bcast" => todo' = clients
    /\ hubpc = "bcast" /\ hubpc' # "bcast" => todo = {}
C1_BackpressureIsolation == [][C1_VisitStep /\ C1_RoundCovers]_vars
C1_Witness ==
    /\ hubpc = "bcast" /\ todo = {}
    /\ \E k \in Clients, c \in Clients :
          /\ roundLog[k] = "evict" /\ k \notin clients /\ closes[k] = 1
          /\ roundLog[c] = "sent" /\ c \in clients /\ closes[c] = 0
          /\ spoke[c] # <<>> /\ spoke[c][Len(spoke[c])] = hubMsg

\* C2: once Stop has been called, the system does not come to rest before
\* Run has returned; and when Run has returned the registry is empty and
\* every spoke that was registered has been closed exactly once.
C2_ShutdownCompletes ==
    stoppc # "idle" =>
        \/ ENABLED NextStop
        \/ /\ hubpc = "done"
           /\ clients = {}
           /\ \A c \in Clients : connpc[c] = "up" => closes[c] = 1

\* C3: no spoke is closed more than once; and when Run takes from
\* Unregister a spoke that is not in the registry, the registry is
\* unchanged and nothing is closed.
C3_AbsentKeyNoop ==
    \A c \in Clients :
        recvpc[c] = "unreg" /\ recvpc'[c] = "close" /\ c \notin clients =>
            clients' = clients /\ closes' = closes /\ panicked' = panicked
C3_NoDoubleClose ==
    /\ [](\A c \in Clients : closes[c] <= 1)
    /\ [][C3_AbsentKeyNoop]_vars
C3_Witness ==
    \E c \in Clients, d \in Clients :
        /\ closedBy[c] = "evict" /\ recvpc[c] \in {"close", "done"} /\ closes[c] = 1
        /\ closedBy[d] = "all" /\ closes[d] = 1

\* C4: Run never waits in a send: not in the send of tickerSigReset and
\* not in the send of tickerSigStop on bufferTickerChan.
C4_HubNeverWaitsInSend == hubpc \notin {"reset", "stop"}

\* C5: for each client, the events on its spoke are in the order of their
\* processing by Run (strictly increasing event numbers), and all of them
\* were processed after the event sendLoop took last: sendLoop takes the
\* events in the order Run processed them, none twice.
C5_FifoDelivery ==
    \A c \in Clients :
        /\ \A i \in 1..Len(spoke[c]) : spoke[c][i].n > lastTaken[c]
        /\ \A i \in 1..Len(spoke[c]), j \in 1..Len(spoke[c]) :
               i < j => spoke[c][i].n < spoke[c][j].n
C5_Witness ==
    \E c \in Clients :
        lastTaken[c] = 1 /\ Len(spoke[c]) = 2 /\ spoke[c][1].n = 2 /\ spoke[c][2].n = 3

\* C6: the round's iteration for a registered client that is not subscribed
\* to the event enqueues nothing on its spoke, unregisters nobody and
\* closes nothing, even if the spoke is full.
C6_VisitUnsubscribed ==
    \A c \in Clients :
        Visited(c) /\ ~Subscribed(c) =>
            /\ spoke'[c] = spoke[c] \/ Len(spoke'[c]) < Len(spoke[c])
            /\ clients' = clients
            /\ numClients' = numClients
            /\ closes' = closes
C6_OnlySubscribedTouched == [][C6_VisitUnsubscribed]_vars
C6_Witness ==
    \E c \in Clients :
        /\ roundLog[c] = "skipfull" /\ c \in clients /\ closes[c] = 0
        /\ Len(spoke[c]) = SpokeCap /\ hubMsg.Signal = sigNewBlock

\* C7: for an address event with address X, isSubscribed is true exactly
\* when the address kind is in the client's kinds and X is in its
\* addresses; and whatever is enqueued on a client's spoke is of a kind the
\* client has subscribed to and, for an address event, of an address it
\* has subscribed to.
C7_EnqueuedIsSubscribed ==
    \A c \in Clients :
        Len(spoke'[c]) > Len(spoke[c]) =>
            LET m == spoke'[c][Len(spoke'[c])]
            IN /\ m.Signal \in cl[c].subs
               /\ m.Signal = sigAddressTx => m.Msg.a \in cl[c].addrs
C7_AddressFilter ==
    /\ [](\A c \in Clients, a \in Addresses :
            isSubscribed(cl[c], HubMessage(sigAddressTx, AddrPtr(a)))
                <=> (sigAddressTx \in cl[c].subs /\ a \in cl[c].addrs))
    /\ [][C7_EnqueuedIsSubscribed]_vars
C7_Witness ==
    \E c \in Clients, d \in Clients :
        /\ cl[c].subs = {sigNewBlock} /\ cl[d].subs = {sigAddressTx}
        /\ cl[d].addrs = {"Addr1"}
        /\ nev = 2
        /\ Len(spoke[c]) = 1 /\ spoke[c][1].Signal = sigNewBlock
        /\ Len(spoke[d]) = 1 /\ spoke[d][1].Signal = sigAddressTx
        /\ spoke[d][1].Msg.a = "Addr1"

\* The payload has the type the kind requires of a subscription.
WellTyped(m) == m.Signal # sigAddressTx \/ m.Msg.t = "addrptr"
LastCall == calls[Len(calls)]
PrevCall == calls[Len(calls) - 1]

\* C8: two calls of subscribe in a row with the same kind (and address)
\* both succeed, and the sets of kinds and of addresses after the second
\* are those after the first.
C8_SubscribeIdempotent ==
    (/\ Len(calls) >= 2
     /\ PrevCall.op = "subscribe" /\ LastCall.op = "subscribe"
     /\ PrevCall.msg = LastCall.msg /\ WellTyped(LastCall.msg))
    => /\ PrevCall.err = "" /\ LastCall.err = ""
       /\ LastCall.post = PrevCall.post
C8_Witness ==
    /\ Len(calls) >= 2
    /\ PrevCall.op = "subscribe" /\ LastCall.op = "subscribe"
    /\ PrevCall.msg = HubMessage(sigAddressTx, AddrPtr("Addr2"))
    /\ LastCall.msg = PrevCall.msg
    /\ PrevCall.pre = [subs |-> {sigNewBlock}, addrs |-> {}]
    /\ LastCall.post = [subs |-> {sigNewBlock, sigAddressTx}, addrs |-> {"Addr2"}]

\* C9: unsubscribe of a kind that is not in the client's kinds, or of an
\* address that is not in the client's addresses, succeeds and leaves the
\* set of kinds and the set of addresses as they were.
C9_UnsubscribeAbsentNoop ==
    (/\ Len(calls) >= 1
     /\ LastCall.op = "unsubscribe" /\ WellTyped(LastCall.msg)
     /\ \/ LastCall.msg.Signal \notin LastCall.pre.subs
        \/ /\ LastCall.msg.Signal = sigAddressTx
           /\ LastCall.msg.Msg.a \notin LastCall.pre.addrs)
    => LastCall.err = "" /\ LastCall.post = LastCall.pre

\* C10: subscribe with the address kind succeeds with a pointer to an
\* AddressMessage; with an AddressMessage that is not a pointer, or with
\* nil, it returns an error and adds neither a kind nor an address;
\* subscribe with any other kind succeeds.
C10_SubscribePayload ==
    (Len(calls) >= 1 /\ LastCall.op = "subscribe") =>
        CASE LastCall.msg.Signal # sigAddressTx -> LastCall.err = ""
          [] LastCall.msg.Msg.t = "addrptr" ->
                /\ LastCall.err = ""
                /\ sigAddressTx \in LastCall.post.subs
                /\ LastCall.msg.Msg.a \in LastCall.post.addrs
          [] LastCall.msg.Msg.t \in {"addrval", "nil"} ->
                /\ LastCall.err \notin {"", "panic"}
                /\ LastCall.post = LastCall.pre
          [] OTHER -> TRUE
C10_Witness ==
    /\ Len(calls) >= 2
    /\ PrevCall.op = "subscribe" /\ PrevCall.msg = HubMessage(sigAddressTx, NilMsg)
    /\ PrevCall.err # "" /\ PrevCall.post = [subs |-> {}, addrs |-> {}]
    /\ LastCall.op = "subscribe"
    /\ LastCall.msg = HubMessage(sigAddressTx, AddrVal("Addr1"))
    /\ LastCall.err # "" /\ LastCall.post = [subs |-> {}, addrs |-> {}]

\* The sequence lo+1, ..., hi.
Consecutive(q, hi) == \A i \in 1..Len(q) : q[i] = hi - Len(q) + i

\* C11: an append returns ready exactly when the buffer's length has
\* reached NewTxBufferSize (false for the first four appends to an empty
\* buffer, true on the fifth); the batch drained last followed by the
\* buffer are the transactions appended since the drain before, in the
\* order of their arrival; and a drain leaves the buffer empty.
C11_BufferCoalescing ==
    /\ Len(calls) >= 1 /\ LastCall.op = "addTx" =>
          /\ LastCall.err = "ready" <=> Len(cl[1].newTxs) >= NewTxBufferSize
          /\ cl[1].newTxs # <<>> /\ cl[1].newTxs[Len(cl[1].newTxs)] = nev
    /\ Len(calls) >= 1 /\ LastCall.op = "drain" => cl[1].newTxs = <<>>
    /\ Consecutive(lastBatch[1] \o cl[1].newTxs, nev)
C11_Witness ==
    /\ nev = NewTxBufferSize
    /\ Len(calls) >= 2
    /\ PrevCall.op = "addTx" /\ PrevCall.err = "ready"
    /\ LastCall.op = "drain"
    /\ lastBatch[1] = <<1, 2, 3, 4, 5>>
    /\ cl[1].newTxs = <<>>

\* C12: with one registered client subscribed to sigNewTxs, an empty
\* buffer and no tick: nothing is on the client's spoke during the first
\* four transactions; the fifth puts exactly one sigNewTxs on it; and when
\* sendLoop has taken it, the batch it encoded is the five transactions in
\* the order of their arrival and the buffer is empty.
C12_EndToEndCoalescing ==
    /\ nev < NewTxBufferSize =>
          /\ spoke[1] = <<>> /\ lastTaken[1] = 0 /\ lastBatch[1] = <<>>
          /\ hubpc = "select"
          /\ Len(cl[1].newTxs) = nev
    /\ nev = NewTxBufferSize =>
          \/ /\ hubpc = "bcast" /\ todo = {1}
             /\ hubMsg.Signal = sigNewTxs
             /\ spoke[1] = <<>> /\ lastTaken[1] = 0
          \/ /\ todo = {}
             /\ Len(spoke[1]) = 1 /\ spoke[1][1].Signal = sigNewTxs
             /\ lastTaken[1] = 0 /\ lastBatch[1] = <<>>
          \/ /\ todo = {}
             /\ spoke[1] = <<>> /\ lastTaken[1] = NewTxBufferSize
             /\ lastBatch[1] = <<1, 2, 3, 4, 5>>
             /\ cl[1].newTxs = <<>>
C12_Witness ==
    /\ nev = NewTxBufferSize /\ hubpc = "select"
    /\ spoke[1] = <<>> /\ lastTaken[1] = NewTxBufferSize
    /\ lastBatch[1] = <<1, 2, 3, 4, 5>>
    /\ cl[1].newTxs = <<>>
    /\ sendpc[1] = "run"

\* This step is Run taking a sigNewTx from HubRelay with clients registered.
TxEventStep == hubpc = "select" /\ nev' = nev + 1 /\ clients # {}
\* The step turned the event into a sigNewTxs that Run broadcasts (after
\* the send of tickerSigReset, if there is one).
FlushStarted == hubMsg'.Signal = sigNewTxs /\ hubpc' \in {"bcast", "reset"}

\* C13: when timeToSendTxBuffer is set, the next sigNewTx Run takes with
\* clients registered becomes a sigNewTxs broadcast to all of them,
\* whatever the lengths of the buffers; and when sendLoop takes a sigNewTxs
\* for a subscribed client with a non-empty buffer, it encodes the whole
\* buffer and leaves it empty.
C13_TimerStep ==
    /\ TxEventStep /\ timeToSendTxBuffer =>
          /\ FlushStarted
          /\ hubpc' = "bcast" => todo' = clients
    /\ \A c \in Clients :
          (/\ lastTaken'[c] # lastTaken[c]
           /\ spoke[c] # <<>> /\ spoke[c][1].Signal = sigNewTxs
           /\ sigNewTxs \in cl[c].subs /\ cl[c].newTxs # <<>>)
          => lastBatch'[c] = cl[c].newTxs /\ cl'[c].newTxs = <<>>
C13_FlushTimerIndependence == [][C13_TimerStep]_vars
C13_Witness ==
    \E c \in Clients :
        /\ nev < NewTxBufferSize /\ nev > 0
        /\ lastTaken[c] = nev
        /\ lastBatch[c] # <<>> /\ lastBatch[c][Len(lastBatch[c])] = nev
        /\ cl[c].newTxs = <<>>

\* C14: the buffer of every registered client holds at most
\* NewTxBufferSize transactions.
C14_BufferBounded ==
    \A c \in clients : Len(cl[c].newTxs) <= NewTxBufferSize

\* C15: a sigNewTx Run takes with clients registered becomes a sigNewTxs
\* broadcast in that round exactly when, after the append to every
\* client's buffer, some registered client's buffer holds at least
\* NewTxBufferSize transactions or timeToSendTxBuffer is set; otherwise
\* nothing is enqueued.
C15_Step ==
    TxEventStep =>
        /\ FlushStarted <=>
              \/ \E c \in clients : Len(cl'[c].newTxs) >= NewTxBufferSize
              \/ timeToSendTxBuffer
        /\ ~FlushStarted => hubpc' = "select" /\ spoke' = spoke
C15_FlushDecision == [][C15_Step]_vars

\* C16: the last request handled, if its message exceeds requestLimit, was
\* answered with the response "Request too large" (a send of it was
\* made), and its receiveLoop goes on.
C16_OversizeRejected ==
    reqLog.big =>
        /\ reqLog.text = "Request too large"
        /\ reqLog.sent \in {"ok", "failed"}
        /\ reqLog.sent = "ok" => recvpc[reqLog.conn] = "run"

\* C17: the last request handled, if its event id is subscribe,
\* unsubscribe, decodetx, sendtx or getmempooltxs, had one response sent,
\* with the event id and "Resp" as its event id; if it is a ping or has an
\* unrecognized event id, it had none.
RespondingIds == {"subscribe", "unsubscribe", "decodetx", "sendtx", "getmempooltxs"}
C17_RequestResponsePairing ==
    /\ reqLog.EventId \in RespondingIds =>
          /\ reqLog.sent \in {"ok", "failed"}
          /\ reqLog.respId = reqLog.EventId \o "Resp"
    /\ reqLog.EventId \in {"ping", "other"} => reqLog.sent = "none"

\* The request is a subscribe or an unsubscribe, within the size limit,
\* whose subscription is not accepted or whose payload the client rejects.
Malformed(r) ==
    /\ r.EventId \in {"subscribe", "unsubscribe"} /\ ~r.big
    /\ \/ ~ValidateSubscription(r.Message).valid
       \/ /\ ValidateSubscription(r.Message).msg.Signal = sigAddressTx
          /\ ValidateSubscription(r.Message).msg.Msg.t # "addrptr"

\* C18: the handling of a malformed subscribe or unsubscribe sends the
\* response "invalid subscription", leaves the client's kinds and
\* addresses and the registry as they were, keeps receiveLoop running when
\* the response was sent, and changes no other connection's client, spoke
\* or loops.
C18_Step ==
    reqLog' # reqLog /\ Malformed(reqLog') =>
        LET c == reqLog'.conn
        IN /\ reqLog'.text = "invalid subscription"
           /\ reqLog'.sent \in {"ok", "failed"}
           /\ reqLog'.sent = "ok" => recvpc'[c] = "run"
           /\ View(cl'[c]) = View(cl[c])
           /\ clients' = clients /\ closes' = closes /\ spoke' = spoke
           /\ \A d \in Clients \ {c} :
                  cl'[d] = cl[d] /\ recvpc'[d] = recvpc[d] /\ sendpc'[d] = sendpc[d]
C18_MalformedSubscription == [][C18_Step]_vars
C18_Witness ==
    \E c \in Clients, d \in Clients :
        /\ c # d /\ clients = {c, d}
        /\ reqLog.conn = c /\ reqLog.EventId = "subscribe"
        /\ reqLog.Message = "address-untyped"
        /\ reqLog.text = "invalid subscription" /\ reqLog.sent = "ok"
        /\ recvpc[c] = "run"
        /\ cl[c].subs = {sigNewBlock} /\ cl[c].addrs = {}
        /\ cl[d].subs = {sigNewBlock} /\ spoke[d] # <<>>

\* receiveLoop has returned from its loop (its deferred calls run or have
\* run).
RecvEnded(c) == recvpc[c] \in {"unsub", "unreg", "close", "done"}

\* C19: with the hub running, once a receiveLoop has returned from its
\* loop, its client's kinds and addresses are eventually empty while the
\* client is out of the registry and its spoke closed; and a Receive that
\* timed out leaves every receiveLoop where it was.
C19_TimeoutStep ==
    reqLog' # reqLog /\ reqLog'.EventId = "timeout" => recvpc' = recvpc
C19_ReceiveLoopTermination ==
    /\ \A c \in Clients :
          RecvEnded(c) ~> /\ cl[c].subs = {} /\ cl[c].addrs = {}
                          /\ c \notin clients /\ spokeClosed(c)
    /\ [][C19_TimeoutStep]_vars
C19_Witness ==
    \E c \in Clients :
        /\ reqLog.conn = c /\ reqLog.Message = "address:Addr1"
        /\ reqLog.text = "subscribe ok" /\ reqLog.sent = "failed"
        /\ recvpc[c] = "done"
        /\ cl[c].subs = {} /\ cl[c].addrs = {}
        /\ c \notin clients /\ closes[c] = 1 /\ closedBy[c] = "unreg"

\* C20: with the hub running, for every connection, once sendLoop has
\* returned receiveLoop eventually returns from its loop, and once
\* receiveLoop has returned from its loop sendLoop eventually returns.
C20_PumpCoupling ==
    \A c \in Clients :
        /\ sendpc[c] = "done" ~> RecvEnded(c)
        /\ RecvEnded(c) ~> sendpc[c] = "done"
C20_Witness ==
    \E c \in Clients, d \in Clients :
        /\ sendpc[c] = "done" /\ recvpc[c] = "done"
        /\ spoke[c] # <<>> /\ closedBy[c] = "unreg"
        /\ sendpc[d] = "run" /\ recvpc[d] = "run" /\ d \in clients

\* C21: a connection whose handler has returned has a receiveLoop that has
\* run all its deferred calls, a client that is out of the registry, and
\* no subscribed kinds or addresses.
C21_HandlerReturnsTornDown ==
    \A c \in Clients :
        connpc[c] = "returned" =>
            /\ recvpc[c] = "done" /\ sendpc[c] = "done"
            /\ c \notin clients
            /\ cl[c].subs = {} /\ cl[c].addrs = {}

\* C22: once Stop has been called, every sendLoop that is running
\* eventually returns, whether Run or a sendLoop received the value Stop
\* sent on quitWSHandler.
C22_SendLoopsEnd ==
    \A c \in Clients :
        (stoppc # "idle" /\ sendpc[c] = "run") ~> sendpc[c] = "done"
C22_Witness ==
    \E c \in Clients, d \in Clients :
        /\ c # d
        /\ stoppc = "done" /\ ~quitClosed /\ hubpc = "done"
        /\ sendpc[c] = "done" /\ closedBy[c] = "all"
        /\ sendpc[d] = "done" /\ closedBy[d] = "all"

\* C23: once Stop has been called, periodicTxBufferSend eventually receives
\* tickerSigStop and returns.
C23_TickerStops == stoppc # "idle" ~> tickpc = "done"

\* C24: the ping goroutine is never in its send on HubRelay when HubRelay
\* is closed.
C24_ProberStopsCleanly == relayClosed => pingpc # "send"

\* C25: whatever Run does, a send of the ping goroutine on HubRelay
\* eventually ends, so that the goroutine is back at the select that reads
\* stopPing, or has returned.
C25_ProberNeverBlocks == pingpc = "send" ~> pingpc \in {"wait", "done"}

\* C26: whatever Run does, a notification goroutine of Store that waits in
\* its select eventually ends, by the receipt of its event or by its
\* timeout.
C26_InjectionBounded == prodpc = "send" ~> prodpc = "idle"

\* A message Run does not relay: the payload does not match the kind, an
\* address or a transaction event has a nil or wrongly typed payload, or
\* the kind is not one that is broadcast.
BadRelay(m) ==
    \/ ~IsValid(m)
    \/ m.Signal = sigAddressTx /\ m.Msg.t # "addrptr"
    \/ m.Signal = sigNewTx /\ m.Msg.t # "tx"
    \/ m.Signal \notin {sigNewBlock, sigPingAndUserCount, sigMempoolUpdate,
                        sigSyncStatus, sigAddressTx, sigNewTx}
InLoop(pc) == pc \in {"select", "bcast", "reset"}

\* C27: the receipt of a malformed message leaves the registry, every
\* spoke, every client and the flush state as they were, with Run back at
\* its select; and Run leaves its loop only in a step that receives Stop's
\* value on quitWSHandler or that reads the closed HubRelay.
C27_Step ==
    /\ (calls' # calls /\ BadRelay(calls'[1].m)) =>
          /\ hubpc' = "select" /\ hubMsg' = NoMsg
          /\ UNCHANGED <<clients, numClients, spoke, closes, cl,
                         timeToSendTxBuffer, bufferTickerChan, nev, panicked>>
    /\ (InLoop(hubpc) /\ ~InLoop(hubpc')) =>
          /\ hubpc = "select"
          /\ \/ stoppc = "quit" /\ stoppc' = "close"
             \/ relayClosed
C27_MalformedEventDropped == [][C27_Step]_vars
C27_Witness ==
    /\ calls # <<>> /\ calls[1].m = HubMessage(sigAddressTx, NilAddrPtr)
    /\ clients = {1}
    /\ sigAddressTx \in cl[1].subs /\ "Addr1" \in cl[1].addrs
    /\ spoke[1] = <<>> /\ lastTaken[1] = 0
    /\ hubpc = "select" /\ nev = 0 /\ Alive

\* C30: the receipt of a message of any kind with an empty registry
\* enqueues nothing, buffers no transaction, leaves timeToSendTxBuffer as
\* it was and sends nothing on bufferTickerChan.
C30_Step ==
    (calls' # calls /\ clients = {}) =>
        /\ hubpc' = "select" /\ hubMsg' = NoMsg
        /\ UNCHANGED <<clients, numClients, spoke, cl, timeToSendTxBuffer,
                       bufferTickerChan, nev>>
C30_EmptyRegistryDiscards == [][C30_Step]_vars
C30_Witness ==
    /\ calls # <<>> /\ calls[1].m = HubMessage(sigNewTx, TxPtr(1))
    /\ clients = {} /\ \A c \in Clients : connpc[c] \in {"none", "register"}
    /\ timeToSendTxBuffer /\ bufferTickerChan = <<>>
    /\ \A c \in Clients : cl[c].newTxs = <<>> /\ spoke[c] = <<>>
    /\ hubpc = "select" /\ nev = 0

\* C28: a transaction in the buffer of a registered client subscribed to
\* new transactions is eventually flushed (the buffer is emptied by
\* sendLoop), or the client's sendLoop has ended, whether or not another
\* transaction arrives.
C28_FlushLatency ==
    (1 \in clients /\ sigNewTxs \in cl[1].subs /\ cl[1].newTxs # <<>>)
        ~> (cl[1].newTxs = <<>> \/ sendpc[1] = "done")

\* C29: every spoke in the registry is open, and Run has not sent on a
\* closed spoke.
C29_RegistryInvariant ==
    /\ \A c \in clients : ~spokeClosed(c)
    /\ panicked # "send on closed channel"
C29_Witness ==
    \E c \in Clients, d \in Clients :
        /\ hubpc = "bcast" /\ todo = {}
        /\ roundLog[c] = "evict" /\ c \notin clients /\ closes[c] = 1
        /\ roundLog[d] = "sent" /\ d \in clients /\ closes[d] = 0

\* C31: the receipt of a sigSubscribe or a sigUnsubscribe from HubRelay
\* starts no broadcast, enqueues nothing on any spoke and unregisters no
\* client, whatever the clients are subscribed to.
C31_Step ==
    (calls' # calls /\ calls'[1].m.Signal \in {sigSubscribe, sigUnsubscribe}) =>
        /\ hubpc' = "select" /\ hubMsg' = NoMsg /\ todo' = {}
        /\ UNCHANGED <<clients, numClients, spoke, closes, nev>>
C31_SubscribeKindNotRelayed == [][C31_Step]_vars
C31_Witness ==
    /\ calls # <<>> /\ calls[1].m = HubMessage(sigSubscribe, NilMsg)
    /\ clients = {1} /\ sigSubscribe \in cl[1].subs
    /\ spoke[1] = <<>> /\ lastTaken[1] = 0 /\ closes[1] = 0
    /\ hubpc = "select" /\ nev = 0 /\ sendpc[1] = "run"

\* C32: the end of the range of a sigNewTxs broadcast leaves
\* timeToSendTxBuffer unset, and the end of any other broadcast leaves it
\* as it was; and a sigNewTx received with the flag unset and no buffer
\* made ready starts no broadcast.
C32_Step ==
    /\ (hubpc = "bcast" /\ hubpc' = "select") =>
          timeToSendTxBuffer' =
             IF hubMsg.Signal = sigNewTxs THEN FALSE ELSE timeToSendTxBuffer
    /\ (/\ calls' # calls /\ nev' = nev + 1
        /\ calls'[1].m.Signal = sigNewTx
        /\ ~timeToSendTxBuffer
        /\ \A c \in clients : ~readyToSend(cl'[c])) =>
          hubpc' = "select" /\ spoke' = spoke
C32_FlagCleared == [][C32_Step]_vars
C32_Witness ==
    /\ calls # <<>> /\ calls[1].m = HubMessage(sigNewTx, TxPtr(2))
    /\ nev = 2 /\ hubpc = "select" /\ ~timeToSendTxBuffer
    /\ clients = {1} /\ sigNewTxs \in cl[1].subs
    /\ lastBatch[1] = <<1>> /\ cl[1].newTxs = <<2>> /\ spoke[1] = <<>>

\* C33: when sendLoop takes from the spoke a signal of a kind the client
\* is no longer subscribed to, nothing is written, the loop keeps running,
\* and the transaction buffer is left as it was (no batch is drained).
C33_Step ==
    \A c \in Clients :
        (/\ sendpc[c] = "run" /\ spoke[c] # <<>>
         /\ spoke'[c] = Tail(spoke[c])
         /\ ~isSubscribed(cl[c], Head(spoke[c]))) =>
            /\ sendpc'[c] = "run"
            /\ cl'[c] = cl[c]
            /\ lastBatch'[c] = lastBatch[c]
C33_SendLoopRevalidates == [][C33_Step]_vars
C33_Witness ==
    /\ nev = 1 /\ lastTaken[1] = 1
    /\ cl[1].newTxs = <<1>> /\ sigNewTxs \notin cl[1].subs
    /\ lastBatch[1] = <<>> /\ spoke[1] = <<>> /\ sendpc[1] = "run"

C35_OtherAddressKept ==
    \A A, B \in Addresses :
        (/\ Len(calls) >= 1 /\ LastCall.op = "unsubscribe" /\ A # B
         /\ LastCall.msg = HubMessage(sigAddressTx, AddrPtr(A))
         /\ sigAddressTx \in LastCall.pre.subs
         /\ {A, B} \subseteq LastCall.pre.addrs)
        => /\ ~isSubscribed(LastCall.post, HubMessage(sigAddressTx, AddrPtr(A)))
           /\ isSubscribed(LastCall.post, HubMessage(sigAddressTx, AddrPtr(B)))

\* The elements of q increase strictly.
Increasing(q) == \A i, j \in 1..Len(q) : i < j => q[i] < q[j]

\* C36: a client's buffer changes only by the append of the transaction
\* Run has just received, at its end, or by a drain that takes the whole
\* buffer as the batch and leaves it empty; a batch is produced only by
\* such a drain; and the batch drained last followed by the buffer are in
\* the order of arrival, without a repetition.
C36_Step ==
    \A c \in Clients :
        LET appended == /\ nev' = nev + 1
                        /\ cl'[c].newTxs = Append(cl[c].newTxs, nev')
                        /\ lastBatch'[c] = lastBatch[c]
            drained  == /\ cl[c].newTxs # <<>>
                        /\ cl'[c].newTxs = <<>>
                        /\ lastBatch'[c] = cl[c].newTxs
                        /\ nev' = nev
        IN /\ cl'[c].newTxs # cl[c].newTxs => appended \/ drained
           /\ lastBatch'[c] # lastBatch[c] => drained
           /\ Increasing(lastBatch'[c] \o cl'[c].newTxs)
C36_NoTxLostOrDuplicated == [][C36_Step]_vars
C36_Witness ==
    /\ nev = 4 /\ lastTaken[1] = 2
    /\ lastBatch[1] = <<1, 2, 3>> /\ cl[1].newTxs = <<4>>
    /\ sendpc[1] = "run"

\* C37: every transaction of a batch sendLoop encodes for a client was
\* received by Run after the client subscribed to sigNewTxs.
C37_OnlyTxsSinceSubscription ==
    /\ calls = <<>> => lastBatch[1] = <<>>
    /\ calls # <<>> =>
          \A i \in 1..Len(lastBatch[1]) : lastBatch[1][i] > calls[1].at

\* C38: whenever Run is in its select or has returned, NumClients() is
\* the number of clients in the registry.
C38_GaugeTracksRegistry ==
    hubpc \in {"select", "done"} => numClients = Cardinality(clients)

\* C39: a receiveLoop that is still in its loop when Stop has returned and
\* Run has returned, and that leaves the loop afterwards, eventually
\* finishes its deferred calls (unsubscribeAll, UnregisterClient, closeWS).
C39_ReceiveLoopCompletes ==
    \A c \in Clients :
        []((stoppc = "done" /\ hubpc = "done" /\ recvpc[c] = "run")
           => [](recvpc[c] \in {"unsub", "unreg", "close"}
                 => <>(recvpc[c] = "done")))

\* C40: a notification goroutine of Store that waits in its select while
\* HubRelay is closed never executes the send on the closed channel.
C40_StoreNeverSendsOnClosed ==
    ~(relayClosed /\ prodpc = "send" /\ panicked = "send on closed channel")

=============================================================================
